---- MODULE Spec2Model ----
(***************************************************************************)
(* Model of openbikefit's motion-analysis core.                            *)
(*                                                                         *)
(* CadenceDetector (src/js/cadence.js) is modelled field by field.         *)
(* Timestamps are integer milliseconds >= 0.  Knee positions are integers  *)
(* in units of 1/YDen of the normalized image height (YDen is a power of   *)
(* two, so the modelled positions and their sums are exact in IEEE        *)
(* doubles and every comparison below is the comparison the code makes).   *)
(* A quotient a/b that the code computes and only compares is kept as the  *)
(* pair and compared by cross-multiplication.                              *)
(***************************************************************************)
EXTENDS Integers, Sequences, FiniteSets, TLC

\* ---------------------------------------------------------------- constants
WINDOW_DURATION_MS == 4000
MIN_CYCLES_FOR_STEADY == 3
\* MAX_PERIOD_VARIATION = 0.25 = MAX_PERIOD_VARIATION_NUM / MAX_PERIOD_VARIATION_DEN
MAX_PERIOD_VARIATION_NUM == 1
MAX_PERIOD_VARIATION_DEN == 4
MIN_CADENCE_RPM == 40
MAX_CADENCE_RPM == 120
STOP_TIMEOUT_MS == 2000
\* _detectPeaks: const lookback = 5
lookback == 5
\* _smoothY: const radius = 2
radius == 2
\* _detectPeaks: the duplicate-peak gap, candidate.t - lastPeak > 300
MIN_PEAK_GAP_MS == 300
\* addSample: if (this.samples.length < 10) return
MIN_SAMPLES == 10
\* rpm = 60000 / period
MS_PER_MINUTE == 60000
\* minProminence = 0.01 = 1 / PROMINENCE_DEN
PROMINENCE_DEN == 100
\* positions are integers in units of 1/YDen
YDen == 64

\* ------------------------------------------------------------------ helpers
Last(s) == s[Len(s)]

Abs(x) == IF x < 0 THEN -x ELSE x

Min2(a, b) == IF a < b THEN a ELSE b

Max2(a, b) == IF a > b THEN a ELSE b

RECURSIVE SumSeq(_)
SumSeq(s) == IF Len(s) = 0 THEN 0 ELSE s[1] + SumSeq(Tail(s))

SeqMax(s) == CHOOSE m \in {s[i] : i \in 1..Len(s)} : \A i \in 1..Len(s) : s[i] <= m

SeqMin(s) == CHOOSE m \in {s[i] : i \in 1..Len(s)} : \A i \in 1..Len(s) : m <= s[i]

\* Array.prototype.shift() repeated while the head is older than the cutoff.
RECURSIVE ShiftWhileOlder(_, _)
ShiftWhileOlder(ts, cutoff) ==
    IF Len(ts) > 0 /\ ts[1] < cutoff THEN ShiftWhileOlder(Tail(ts), cutoff) ELSE ts

\* variant of ShiftSamples that drops one sample at most (an `if` for the `while`)
ShiftSamples_once(ss, cutoff) ==
    IF Len(ss) > 0 /\ ss[1].t < cutoff THEN Tail(ss) ELSE ss

RECURSIVE ShiftSamples(_, _)
ShiftSamples(ss, cutoff) ==
    IF Len(ss) > 0 /\ ss[1].t < cutoff THEN ShiftSamples(Tail(ss), cutoff) ELSE ss

\* Math.round(60000 / period): round half up.
RoundedRpm(period) == (2 * MS_PER_MINUTE + period) \div (2 * period)

\* ----------------------------------------------------------- the detector
\* A detector value is the record of the object's fields; `emitted` is the
\* log of what the registered listener was called with, `epoch` counts resets.
\* variant of reset that leaves the per-cycle angle buffer in place
reset_keepsAngles(d) ==
    [ d EXCEPT !.samples = <<>>, !.peaks = <<>>, !.troughs = <<>>,
               !.isSteady = FALSE, !.lastCycleTime = 0, !.cycleCount = 0,
               !.onCycleCallback = FALSE,
               !.epoch = d.epoch + 1 ]

\* variant of reset that leaves the peak history in place
reset_keepsPeaks(d) ==
    [ d EXCEPT !.samples = <<>>, !.troughs = <<>>,
               !.isSteady = FALSE, !.lastCycleTime = 0, !.cycleCount = 0,
               !.onCycleCallback = FALSE, !.currentCycleAngles = <<>>,
               !.epoch = d.epoch + 1 ]

\* variant of reset that leaves the listener registered
reset_keepsListener(d) ==
    [ d EXCEPT !.samples = <<>>, !.peaks = <<>>, !.troughs = <<>>,
               !.isSteady = FALSE, !.lastCycleTime = 0, !.cycleCount = 0,
               !.currentCycleAngles = <<>>,
               !.epoch = d.epoch + 1 ]

\* reset(): every field back to its initial value, the listener included.
reset(d) ==
    [ d EXCEPT !.samples = <<>>, !.peaks = <<>>, !.troughs = <<>>,
               !.isSteady = FALSE, !.lastCycleTime = 0, !.cycleCount = 0,
               !.onCycleCallback = FALSE, !.currentCycleAngles = <<>>,
               !.epoch = d.epoch + 1 ]

onCycle(d) == [ d EXCEPT !.onCycleCallback = TRUE ]

\* variants of hasStopped with a plausible slip: the timeout compared with >=,
\* the sentinel test left out, the time taken from the last peak
hasStopped_ge(d, timestamp) ==
    IF d.lastCycleTime = 0 THEN FALSE
    ELSE timestamp - d.lastCycleTime >= STOP_TIMEOUT_MS

hasStopped_noSentinel(d, timestamp) ==
    timestamp - d.lastCycleTime > STOP_TIMEOUT_MS

hasStopped_lastPeak(d, timestamp) ==
    IF d.lastCycleTime = 0 \/ Len(d.peaks) = 0 THEN FALSE
    ELSE timestamp - d.peaks[Len(d.peaks)] > STOP_TIMEOUT_MS

\* hasStopped(timestamp)
hasStopped(d, timestamp) ==
    IF d.lastCycleTime = 0 THEN FALSE
    ELSE timestamp - d.lastCycleTime > STOP_TIMEOUT_MS

\* _smoothY(idx) with a 0-based idx, as the pair <<sum, count>>.
smoothY(ss, idx) ==
    LET lo == Max2(0, idx - radius)
        hi == Min2(Len(ss) - 1, idx + radius)
    IN  << SumSeq([k \in 1..(hi - lo + 1) |-> ss[lo + k].y]), hi - lo + 1 >>

\* a/b >= c/d, a/b <= c/d for positive b, d
RatGeq(p, q) == p[1] * q[2] >= q[1] * p[2]

RatLeq(p, q) == p[1] * q[2] <= q[1] * p[2]

\* variant of isPeakAt that lets a neighbour equal the candidate
isPeakAt_nonStrict(ss, idx) ==
    \A i \in (idx - lookback)..(idx + lookback) :
        i = idx \/ RatLeq(smoothY(ss, i), smoothY(ss, idx))

\* the loop of _detectPeaks over the neighbours of idx (0-based)
isPeakAt(ss, idx) ==
    \A i \in (idx - lookback)..(idx + lookback) :
        i = idx \/ ~RatGeq(smoothY(ss, i), smoothY(ss, idx))

isTroughAt(ss, idx) ==
    \A i \in (idx - lookback)..(idx + lookback) :
        i = idx \/ ~RatLeq(smoothY(ss, i), smoothY(ss, idx))

\* variant of prominent with the prominence test left out
prominent_always(ss, idx) == TRUE

\* prominence > minProminence:  |smoothY - avgY| > 0.01, positions in 1/YDen
prominent(ss, idx) ==
    LET sm == smoothY(ss, idx)
        total == SumSeq([k \in 1..Len(ss) |-> ss[k].y])
        n == Len(ss)
    IN  PROMINENCE_DEN * Abs(sm[1] * n - total * sm[2]) > YDen * sm[2] * n

\* variant of outOfBand with the lower limit forgotten
outOfBand_noMin(period) ==
    MS_PER_MINUTE > MAX_CADENCE_RPM * period

\* rpm < MIN_CADENCE_RPM || rpm > MAX_CADENCE_RPM, with rpm = 60000 / period
outOfBand(period) ==
    \/ MS_PER_MINUTE < MIN_CADENCE_RPM * period
    \/ MS_PER_MINUTE > MAX_CADENCE_RPM * period

\* variant of summaryOf numbering the cycles from 0
summaryOf_zeroBased(cycleAngles, cycleCount, peakTime, period) ==
    [ cycleNumber |-> cycleCount - 1,
      timestamp   |-> peakTime,
      rpm         |-> RoundedRpm(period),
      kneeMax     |-> SeqMax([k \in 1..Len(cycleAngles) |-> cycleAngles[k].knee]),
      hipMin      |-> SeqMin([k \in 1..Len(cycleAngles) |-> cycleAngles[k].hip]),
      torsoAvg    |-> << SumSeq([k \in 1..Len(cycleAngles) |-> cycleAngles[k].torso]),
                         Len(cycleAngles) >>,
      elbowAvg    |-> << SumSeq([k \in 1..Len(cycleAngles) |-> cycleAngles[k].elbow]),
                         Len(cycleAngles) >> ]

\* the summary object built at lines 148-158; an average is <<sum, count>>
summaryOf(cycleAngles, cycleCount, peakTime, period) ==
    [ cycleNumber |-> cycleCount,
      timestamp   |-> peakTime,
      rpm         |-> RoundedRpm(period),
      kneeMax     |-> SeqMax([k \in 1..Len(cycleAngles) |-> cycleAngles[k].knee]),
      hipMin      |-> SeqMin([k \in 1..Len(cycleAngles) |-> cycleAngles[k].hip]),
      torsoAvg    |-> << SumSeq([k \in 1..Len(cycleAngles) |-> cycleAngles[k].torso]),
                         Len(cycleAngles) >>,
      elbowAvg    |-> << SumSeq([k \in 1..Len(cycleAngles) |-> cycleAngles[k].elbow]),
                         Len(cycleAngles) >> ]

\* variant of steadyValue that looks at the two newest periods only
steadyValue_twoPeriods(peaks) ==
    IF Len(peaks) < MIN_CYCLES_FOR_STEADY + 1 THEN FALSE
    ELSE LET n == Len(peaks)
             periods == [i \in 1..2 |-> peaks[n - 2 + i] - peaks[n - 2 + i - 1]]
             total == SumSeq(periods)
         IN  \A i \in 1..2 :
                 MAX_PERIOD_VARIATION_DEN * Abs(2 * periods[i] - total)
                     < MAX_PERIOD_VARIATION_NUM * total

\* the value _checkSteady assigns to isSteady
steadyValue(peaks) ==
    IF Len(peaks) < MIN_CYCLES_FOR_STEADY + 1 THEN FALSE
    ELSE LET n == Len(peaks)
             periods == [i \in 1..MIN_CYCLES_FOR_STEADY |->
                            peaks[n - MIN_CYCLES_FOR_STEADY + i]
                          - peaks[n - MIN_CYCLES_FOR_STEADY + i - 1]]
             total == SumSeq(periods)
             k == MIN_CYCLES_FOR_STEADY
         \* |p - total/k| / (total/k) < NUM/DEN  for every p (the max is below)
         IN  \A i \in 1..k :
                 MAX_PERIOD_VARIATION_DEN * Abs(k * periods[i] - total)
                     < MAX_PERIOD_VARIATION_NUM * total

checkSteady(d) == [ d EXCEPT !.isSteady = steadyValue(d.peaks) ]

\* variant of deliver that calls the listener again
deliver_twice(d, summary) ==
    [ d EXCEPT !.emitted = d.emitted \o << [ summary |-> summary, epoch |-> d.epoch ],
                                          [ summary |-> summary, epoch |-> d.epoch ] >> ]

\* the listener call: the summary is appended to the listener's log
deliver(d, summary) ==
    [ d EXCEPT !.emitted = Append(d.emitted, [ summary |-> summary, epoch |-> d.epoch ]) ]

\* variant of checkCycleComplete that notes the peak's time before the band test
checkCycleComplete_timeFirst(d, peakTime) ==
    IF Len(d.peaks) < 2 THEN d
    ELSE LET prevPeak == d.peaks[Len(d.peaks) - 1]
             period == peakTime - prevPeak
             d0 == [ d EXCEPT !.lastCycleTime = peakTime ]
         IN  IF outOfBand(period) THEN d0
             ELSE LET d1 == [ d0 EXCEPT !.cycleCount = d.cycleCount + 1,
                                        !.currentCycleAngles = <<>> ]
                      cycleAngles == d.currentCycleAngles
                      d2 == IF Len(cycleAngles) > 0 /\ d.onCycleCallback
                            THEN deliver(d1, summaryOf(cycleAngles, d1.cycleCount,
                                                       peakTime, period))
                            ELSE d1
                  IN  checkSteady(d2)

\* variant of checkCycleComplete that empties the buffer only when it emits
checkCycleComplete_keepsAngles(d, peakTime) ==
    IF Len(d.peaks) < 2 THEN d
    ELSE LET prevPeak == d.peaks[Len(d.peaks) - 1]
             period == peakTime - prevPeak
         IN  IF outOfBand(period) THEN d
             ELSE LET d1 == [ d EXCEPT !.cycleCount = d.cycleCount + 1,
                                       !.lastCycleTime = peakTime ]
                      cycleAngles == d.currentCycleAngles
                      d2 == IF Len(cycleAngles) > 0 /\ d.onCycleCallback
                            THEN deliver([ d1 EXCEPT !.currentCycleAngles = <<>> ],
                                         summaryOf(cycleAngles, d1.cycleCount,
                                                   peakTime, period))
                            ELSE d1
                  IN  checkSteady(d2)

\* variant of checkCycleComplete that does not test whether a listener is set
checkCycleComplete_anyListener(d, peakTime) ==
    IF Len(d.peaks) < 2 THEN d
    ELSE LET prevPeak == d.peaks[Len(d.peaks) - 1]
             period == peakTime - prevPeak
         IN  IF outOfBand(period) THEN d
             ELSE LET d1 == [ d EXCEPT !.cycleCount = d.cycleCount + 1,
                                       !.lastCycleTime = peakTime,
                                       !.currentCycleAngles = <<>> ]
                      cycleAngles == d.currentCycleAngles
                      d2 == IF Len(cycleAngles) > 0
                            THEN deliver(d1, summaryOf(cycleAngles, d1.cycleCount,
                                                       peakTime, period))
                            ELSE d1
                  IN  checkSteady(d2)

\* variant of checkCycleComplete that recomputes steadiness for every peak
checkCycleComplete_steadyFirst(d, peakTime) ==
    IF Len(d.peaks) < 2 THEN checkSteady(d)
    ELSE LET prevPeak == d.peaks[Len(d.peaks) - 1]
             period == peakTime - prevPeak
         IN  IF outOfBand(period) THEN checkSteady(d)
             ELSE LET d1 == [ d EXCEPT !.cycleCount = d.cycleCount + 1,
                                       !.lastCycleTime = peakTime,
                                       !.currentCycleAngles = <<>> ]
                      cycleAngles == d.currentCycleAngles
                      d2 == IF Len(cycleAngles) > 0 /\ d.onCycleCallback
                            THEN deliver(d1, summaryOf(cycleAngles, d1.cycleCount,
                                                       peakTime, period))
                            ELSE d1
                  IN  checkSteady(d2)

\* _checkCycleComplete(peakTime), called after the peak was pushed
checkCycleComplete(d, peakTime) ==
    IF Len(d.peaks) < 2 THEN d
    ELSE LET prevPeak == d.peaks[Len(d.peaks) - 1]
             period == peakTime - prevPeak
         IN  IF outOfBand(period) THEN d
             ELSE LET d1 == [ d EXCEPT !.cycleCount = d.cycleCount + 1,
                                       !.lastCycleTime = peakTime,
                                       !.currentCycleAngles = <<>> ]
                      cycleAngles == d.currentCycleAngles
                      d2 == IF Len(cycleAngles) > 0 /\ d.onCycleCallback
                            THEN deliver(d1, summaryOf(cycleAngles, d1.cycleCount,
                                                       peakTime, period))
                            ELSE d1
                  IN  checkSteady(d2)

\* variant of gapOk with the minimum gap left out
gapOk_always(hist, t) == TRUE

\* !last || candidate.t - last > 300  (an empty history and a 0 are both falsy)
gapOk(hist, t) ==
    \/ Len(hist) = 0
    \/ Last(hist) = 0
    \/ t - Last(hist) > MIN_PEAK_GAP_MS

\* _detectPeaks(timestamp)
detectPeaks(d, timestamp) ==
    LET len == Len(d.samples)
    IN  IF len < lookback * 2 + 1 THEN d
        ELSE LET idx == len - 1 - lookback
                 candidate == d.samples[idx + 1]
                 isPeak == isPeakAt(d.samples, idx)
                 isTrough == isTroughAt(d.samples, idx)
                 prom == prominent(d.samples, idx)
                 d1 == IF isPeak /\ prom /\ gapOk(d.peaks, candidate.t)
                       THEN checkCycleComplete(
                                [ d EXCEPT !.peaks = Append(d.peaks, candidate.t) ],
                                candidate.t)
                       ELSE d
                 d2 == IF isTrough /\ prom /\ gapOk(d1.troughs, candidate.t)
                       THEN [ d1 EXCEPT !.troughs = Append(d1.troughs, candidate.t) ]
                       ELSE d1
                 oldCutoff == timestamp - WINDOW_DURATION_MS * 2
             IN  [ d2 EXCEPT !.peaks = ShiftWhileOlder(d2.peaks, oldCutoff),
                             !.troughs = ShiftWhileOlder(d2.troughs, oldCutoff) ]

\* addSample(timestamp, kneeY, angles); angles is <<>> for null, <<a>> otherwise
addSample(d, timestamp, kneeY, angles) ==
    LET d1 == [ d EXCEPT !.samples = ShiftSamples(
                                Append(d.samples, [ t |-> timestamp, y |-> kneeY ]),
                                timestamp - WINDOW_DURATION_MS),
                         !.currentCycleAngles = d.currentCycleAngles \o angles ]
    IN  IF Len(d1.samples) < MIN_SAMPLES THEN d1 ELSE detectPeaks(d1, timestamp)

\* ------------------------------------------------ trimming (analysis.js)
TRIM_END_MS == 5000

\* variant of trimCycles without the test for a short session
trimCycles_noSpanTest(cd) ==
    IF Len(cd) <= 1 THEN cd
    ELSE LET lastTime == cd[Len(cd)].timestamp
         IN  SelectSeq(cd, LAMBDA c : c.timestamp <= lastTime - TRIM_END_MS)

\* variant of trimCycles that takes a span of exactly 5000 ms as long
trimCycles_spanLt(cd) ==
    IF Len(cd) <= 1 THEN cd
    ELSE LET lastTime == cd[Len(cd)].timestamp
             firstTime == cd[1].timestamp
         IN  IF lastTime - firstTime < TRIM_END_MS THEN cd
             ELSE SelectSeq(cd, LAMBDA c : c.timestamp <= lastTime - TRIM_END_MS)

\* variant of trimCycles that also drops the cycle exactly 5000 ms before the last
trimCycles_strict(cd) ==
    IF Len(cd) <= 1 THEN cd
    ELSE LET lastTime == cd[Len(cd)].timestamp
             firstTime == cd[1].timestamp
         IN  IF lastTime - firstTime <= TRIM_END_MS THEN cd
             ELSE SelectSeq(cd, LAMBDA c : c.timestamp < lastTime - TRIM_END_MS)

\* variant of trimCycles that keeps the trailing 5 seconds and drops the rest
trimCycles_keepsTail(cd) ==
    IF Len(cd) <= 1 THEN cd
    ELSE LET lastTime == cd[Len(cd)].timestamp
             firstTime == cd[1].timestamp
         IN  IF lastTime - firstTime <= TRIM_END_MS THEN cd
             ELSE SelectSeq(cd, LAMBDA c : c.timestamp > lastTime - TRIM_END_MS)

\* trimCycles(cycleData)
trimCycles(cd) ==
    IF Len(cd) <= 1 THEN cd
    ELSE LET lastTime == cd[Len(cd)].timestamp
             firstTime == cd[1].timestamp
         IN  IF lastTime - firstTime <= TRIM_END_MS THEN cd
             ELSE SelectSeq(cd, LAMBDA c : c.timestamp <= lastTime - TRIM_END_MS)

\* ------------------------------------------------ analysis (analysis.js)
\* THRESHOLDS, in the order Object.entries gives; the suggestion texts are
\* referred to by the name of their property
Channels == << "knee", "hip", "torso", "elbow" >>

THRESHOLDS ==
    [ knee  |-> [ name |-> "Knee (at BDC)", category |-> "Injury risk", min |-> 135, max |-> 150 ],
      hip   |-> [ name |-> "Hip (at TDC)", category |-> "Injury risk", min |-> 60, max |-> 80 ],
      torso |-> [ name |-> "Torso", category |-> "Mixed", min |-> 30, max |-> 55 ],
      elbow |-> [ name |-> "Elbow", category |-> "Comfort", min |-> 145, max |-> 170 ] ]

\* diff > 10
RED_DIFF == 10

RECURSIVE Gcd(_, _)
Gcd(a, b) == IF b = 0 THEN a ELSE Gcd(b, a % b)

Lcm(a, b) == (a * b) \div Gcd(a, b)

\* An angle value is the quotient << numerator, denominator >>.  The values a
\* channel takes over the cycles: knee.max, hip.min, torso.avg, elbow.avg.
valuesOf(cd, key) ==
    [i \in 1..Len(cd) |->
        CASE key = "knee"  -> << cd[i].kneeMax, 1 >>
          [] key = "hip"   -> << cd[i].hipMin, 1 >>
          [] key = "torso" -> cd[i].torsoAvg
          [] key = "elbow" -> cd[i].elbowAvg ]

\* the values over their common denominator: << numerators, denominator >>
RECURSIVE CommonDen(_)
CommonDen(values) ==
    IF Len(values) = 0 THEN 1 ELSE Lcm(values[1][2], CommonDen(Tail(values)))

Scaled(values) ==
    LET D == CommonDen(values)
    IN  [i \in 1..Len(values) |-> values[i][1] * (D \div values[i][2])]

\* Math.round(x * 10) for x = num / den, den > 0: the number of tenths
RoundTenths(num, den) == (20 * num + den) \div (2 * den)

\* Math.round(Math.sqrt(num / den) * 10): the r with r - 1/2 <= 10 sqrt < r + 1/2,
\* that is the least r with 400 num < (2r + 1)^2 den, looked for in lo..hi
RECURSIVE RootTenths(_, _, _, _)
RootTenths(num, den, lo, hi) ==
    IF lo >= hi THEN lo
    ELSE LET mid == (lo + hi) \div 2
         IN  IF 400 * num < (2 * mid + 1) * (2 * mid + 1) * den
             THEN RootTenths(num, den, lo, mid)
             ELSE RootTenths(num, den, mid + 1, hi)

\* variant of stdOf: the sample deviation (n - 1 in place of n)
stdOf_sample(w, D) ==
    LET n == Len(w)
        S == SumSeq(w)
        Q == SumSeq([i \in 1..n |-> (n * w[i] - S) * (n * w[i] - S)])
        spread == (SeqMax(w) - SeqMin(w)) \div D + 1
    IN  IF n = 1 THEN 0 ELSE RootTenths(Q, n * n * (n - 1) * D * D, 0, 10 * spread)

\* std: sqrt(sum((v - avg)^2) / n) in tenths; v = w[i] / D, avg = S / (n D)
stdOf(w, D) ==
    LET n == Len(w)
        S == SumSeq(w)
        Q == SumSeq([i \in 1..n |-> (n * w[i] - S) * (n * w[i] - S)])
        \* the deviation is below the spread of the values
        spread == (SeqMax(w) - SeqMin(w)) \div D + 1
    IN  RootTenths(Q, n * n * n * D * D, 0, 10 * spread)

\* variant of statusOf: red from a difference of exactly 10
statusOf_ge(S, nD, threshold) ==
    IF S < threshold.min * nD
    THEN [ status |-> IF threshold.min * nD - S >= RED_DIFF * nD THEN "red" ELSE "yellow",
           suggestion |-> "lowSuggestion" ]
    ELSE IF S > threshold.max * nD
    THEN [ status |-> IF S - threshold.max * nD >= RED_DIFF * nD THEN "red" ELSE "yellow",
           suggestion |-> "highSuggestion" ]
    ELSE [ status |-> "green", suggestion |-> "goodSuggestion" ]

\* status and suggestion for avg = S / nD  (lines 83-99)
statusOf(S, nD, threshold) ==
    IF S < threshold.min * nD
    THEN [ status |-> IF threshold.min * nD - S > RED_DIFF * nD THEN "red" ELSE "yellow",
           suggestion |-> "lowSuggestion" ]
    ELSE IF S > threshold.max * nD
    THEN [ status |-> IF S - threshold.max * nD > RED_DIFF * nD THEN "red" ELSE "yellow",
           suggestion |-> "highSuggestion" ]
    ELSE [ status |-> "green", suggestion |-> "goodSuggestion" ]

\* variant of resultOf that classifies the rounded average
resultOf_statusFromRounded(key, values) ==
    LET threshold == THRESHOLDS[key]
        D == CommonDen(values)
        w == Scaled(values)
        n == Len(values)
        st == statusOf(RoundTenths(SumSeq(w), n * D), 10, threshold)
    IN  [ key |-> key, name |-> threshold.name, category |-> threshold.category,
          avg |-> RoundTenths(SumSeq(w), n * D),
          min |-> RoundTenths(SeqMin(w), D),
          max |-> RoundTenths(SeqMax(w), D),
          std |-> stdOf(w, D),
          targetMin |-> threshold.min, targetMax |-> threshold.max,
          status |-> st.status, suggestion |-> st.suggestion ]

\* one entry of results; avg, min, max and std are numbers of tenths
resultOf(key, values) ==
    LET threshold == THRESHOLDS[key]
        D == CommonDen(values)
        w == Scaled(values)
        n == Len(values)
        st == statusOf(SumSeq(w), n * D, threshold)
    IN  [ key |-> key, name |-> threshold.name, category |-> threshold.category,
          avg |-> RoundTenths(SumSeq(w), n * D),
          min |-> RoundTenths(SeqMin(w), D),
          max |-> RoundTenths(SeqMax(w), D),
          std |-> stdOf(w, D),
          targetMin |-> threshold.min, targetMax |-> threshold.max,
          status |-> st.status, suggestion |-> st.suggestion ]

\* analyzeSession(cycleData)
analyzeSession(cd) ==
    IF Len(cd) = 0 THEN <<>>
    ELSE [i \in 1..Len(Channels) |-> resultOf(Channels[i], valuesOf(cd, Channels[i]))]

\* ------------------------------------------------------------- the callers
VARIABLES
    samples, peaks, troughs, isSteady, lastCycleTime, cycleCount,
    onCycleCallback, currentCycleAngles,   \* the CadenceDetector's fields
    emitted,        \* what the registered listener has been called with
    epoch,          \* number of reset() calls made (constructor excluded)
    clock,          \* timestamp the next frame will carry
    wave,           \* the stretch of signal being played: [dt, pat]
    pos,            \* index in wave.pat of the next position
    strokes,        \* number of stretches played to the end
    anglesOn,       \* whether the caller passes an angle set (else null)
    fed,            \* addSample calls made
    history,        \* every addSample call since the last reset: [t, y, angles]
    lastOp,         \* the operation that ran last
    lastResult,     \* after hasStopped calls: timestamp asked |-> answer; else <<>>
    cycleData,      \* the app's list of recorded cycle summaries
    landmarks,      \* the landmark array of the frame being processed
    currentState,   \* the app's State: DETECTING, RECORDING or COMPLETE
    cameraSide,     \* "null" until locked, then "left" or "right"
    sideVotes,      \* frames counted for each side while DETECTING
    pedalingStopped,
    TARGET_RANGES,  \* the active target ranges: channel |-> <<min, max>>
    localStorage    \* <<>> when nothing is stored, else <<the stored ranges>>

detVars == << samples, peaks, troughs, isSteady, lastCycleTime, cycleCount,
              onCycleCallback, currentCycleAngles, emitted, epoch >>

envVars == << clock, wave, pos, strokes, anglesOn, fed >>

vars == << samples, peaks, troughs, isSteady, lastCycleTime, cycleCount,
           onCycleCallback, currentCycleAngles, emitted, epoch,
           clock, wave, pos, strokes, anglesOn, fed, history, lastOp, lastResult,
           cycleData, landmarks, currentState, cameraSide, sideVotes,
           pedalingStopped, TARGET_RANGES, localStorage >>

\* the app's own variables
sessionVars == << currentState, cameraSide, sideVotes, pedalingStopped >>

rangeVars == << TARGET_RANGES, localStorage >>

appVars == << landmarks, sessionVars, rangeVars >>

\* const DEFAULT_RANGES
DEFAULT_RANGES ==
    [ knee |-> << 130, 145 >>, hip |-> << 45, 60 >>,
      torso |-> << 30, 55 >>, elbow |-> << 145, 170 >> ]

\* the module-level initial values of the app's variables
InitApp ==
    /\ landmarks = <<>>
    /\ currentState = "DETECTING"
    /\ cameraSide = "null"
    /\ sideVotes = [ left |-> 0, right |-> 0 ]
    /\ pedalingStopped = FALSE
    /\ TARGET_RANGES = DEFAULT_RANGES
    /\ localStorage = <<>>

\* the detector object as one value
Det ==
    [ samples |-> samples, peaks |-> peaks, troughs |-> troughs,
      isSteady |-> isSteady, lastCycleTime |-> lastCycleTime,
      cycleCount |-> cycleCount, onCycleCallback |-> onCycleCallback,
      currentCycleAngles |-> currentCycleAngles,
      emitted |-> emitted, epoch |-> epoch ]

\* the object after a method ran
Becomes(d) ==
    /\ samples' = d.samples
    /\ peaks' = d.peaks
    /\ troughs' = d.troughs
    /\ isSteady' = d.isSteady
    /\ lastCycleTime' = d.lastCycleTime
    /\ cycleCount' = d.cycleCount
    /\ onCycleCallback' = d.onCycleCallback
    /\ currentCycleAngles' = d.currentCycleAngles
    /\ emitted' = d.emitted
    /\ epoch' = d.epoch

\* new CadenceDetector(): the constructor runs reset()
InitDetector ==
    /\ samples = <<>>
    /\ peaks = <<>>
    /\ troughs = <<>>
    /\ isSteady = FALSE
    /\ lastCycleTime = 0
    /\ cycleCount = 0
    /\ onCycleCallback = FALSE
    /\ currentCycleAngles = <<>>
    /\ emitted = <<>>
    /\ epoch = 0

\* ------------------------------------------------------------ the signals
\* bounds of the model
MaxSamples == 36
MaxResets == 1
ResetBy == 18
ToggleBy == 18
MaxPeriods == 8

\* the angle set a frame carries: knee and hip follow the knee position,
\* torso and elbow vary from frame to frame
AnglesAt(y, k) ==
    [ knee |-> 100 + y, hip |-> 120 - y, torso |-> 30 + (k % 4), elbow |-> 150 + (k % 3) ]

\* one pedal stroke sampled every dt ms, from just after a maximum down
\* `half` steps of `step` to the minimum `base` and up again to the maximum
Tri(dt, half, step, base) ==
    [ dt |-> dt,
      pat |-> [k \in 1..(2 * half) |-> base + step * Abs(half - k)] ]

\* 600 ms strokes: a sample on the maximum (every 100 ms, every 50 ms), and
\* two samples astride it (every 100 ms)
Tri600x100 == Tri(100, 3, 16, 8)

Tri600x50 == Tri(50, 6, 10, 0)

Flat600x100 == [ dt |-> 100, pat |-> <<24, 8, 8, 24, 40, 40>> ]

PeriodicWaves == { Tri600x100, Tri600x50, Flat600x100 }

\* maxima 400 ms and 1500 ms apart in turn, sampled every 50 ms: a dip of
\* 4 + 4 samples, then one of 15 + 15
Alt(shortStep, longStep) ==
    [ dt |-> 50,
      pat |-> [k \in 1..38 |->
                 IF k <= 8 THEN 60 - shortStep * Min2(k, 8 - k)
                 ELSE 60 - longStep * Min2(k - 8, 30 - (k - 8))] ]

AlternatingWaves == { Alt(4, 4), Alt(15, 4) }

\* strokes the rider may string together: 600 ms and 800 ms (in band),
\* 400 ms (too fast), 1600 ms (too slow)
Tri800x100 == Tri(100, 4, 12, 8)

Quick400x50 == Tri(50, 4, 12, 8)

Slow1600x200 == Tri(200, 4, 12, 8)

Strokes == { Tri600x100, Tri800x100, Quick400x50, Slow1600x200 }

\* ------------------------------------------------------------- operations
\* one frame: addSample(timestamp, knee.y, angles or null); `next` is the
\* stretch of signal that follows when the current one has been played
Frame(next) ==
    LET t == clock + wave.dt
        y == wave.pat[pos]
        a == IF anglesOn THEN << AnglesAt(y, fed) >> ELSE <<>>
    IN  /\ Becomes(addSample(Det, t, y, a))
        /\ clock' = t
        /\ fed' = fed + 1
        /\ history' = Append(history, [ t |-> t, y |-> y, angles |-> a ])
        /\ IF pos < Len(wave.pat)
           THEN pos' = pos + 1 /\ UNCHANGED << wave, strokes >>
           ELSE pos' = 1 /\ wave' = next /\ strokes' = strokes + 1
        /\ lastOp' = "addSample"
        /\ lastResult' = <<>>
        /\ UNCHANGED << anglesOn, cycleData, appVars >>

\* the timestamps hasStopped is asked about: the frame's own (as the app
\* does), and those around the timeout after the last accepted cycle
QueryTimes ==
    { clock } \cup
    { t \in { lastCycleTime + STOP_TIMEOUT_MS + o : o \in {-1, 0, 1} } : t >= clock }

\* hasStopped(ts) asked for each of these timestamps; the answers are kept
HasStoppedCall ==
    /\ lastOp # "hasStopped"
    /\ pos = 1
    /\ lastResult' = [ ts \in QueryTimes |-> hasStopped(Det, ts) ]
    /\ lastOp' = "hasStopped"
    /\ UNCHANGED << detVars, envVars, history, cycleData, appVars >>

OnCycleCall ==
    /\ ~onCycleCallback
    /\ history = <<>>
    /\ Becomes(onCycle(Det))
    /\ lastOp' = "onCycle"
    /\ lastResult' = <<>>
    /\ UNCHANGED << envVars, history, cycleData, appVars >>

ResetCall ==
    /\ epoch < MaxResets
    /\ fed > 0
    /\ fed <= ResetBy
    /\ pos = 1
    /\ cycleCount > 0
    /\ Becomes(reset(Det))
    /\ history' = <<>>
    /\ lastOp' = "reset"
    /\ lastResult' = <<>>
    /\ UNCHANGED << envVars, cycleData, appVars >>

\* the caller starts or stops passing angle sets (null before calibration)
ToggleAngles ==
    /\ anglesOn = FALSE
    /\ pos = 1
    /\ fed <= ToggleBy
    /\ anglesOn' = TRUE
    /\ lastOp' = "toggle"
    /\ lastResult' = <<>>
    /\ UNCHANGED << detVars, clock, wave, pos, strokes, fed, history, cycleData, appVars >>

\* ----------------------------------------------- Spec: free pedalling
FreeFrame ==
    /\ fed < MaxSamples
    /\ \E next \in (IF pos < Len(wave.pat) THEN { wave } ELSE Strokes) : Frame(next)

Init ==
    /\ InitDetector
    /\ clock = 0
    /\ wave \in Strokes
    /\ pos = 1
    /\ strokes = 0
    /\ anglesOn \in BOOLEAN
    /\ fed = 0
    /\ history = <<>>
    /\ lastOp = "new"
    /\ lastResult = <<>>
    /\ cycleData = <<>>
    /\ InitApp

Next ==
    \/ FreeFrame
    \/ HasStoppedCall
    \/ OnCycleCall
    \/ ResetCall
    \/ ToggleAngles

Spec == Init /\ [][Next]_vars

\* ------------------------------- SpecWave: a periodic signal, angles on
WaveFrame ==
    /\ onCycleCallback
    /\ strokes < MaxPeriods
    /\ Frame(wave)

InitWave ==
    /\ InitDetector
    /\ clock = 0
    /\ wave \in PeriodicWaves \cup AlternatingWaves
    /\ pos \in { 1, Len(wave.pat) \div 2 }
    /\ strokes = 0
    /\ anglesOn = TRUE
    /\ fed = 0
    /\ history = <<>>
    /\ lastOp = "new"
    /\ lastResult = <<>>
    /\ cycleData = <<>>
    /\ InitApp

NextWave ==
    \/ WaveFrame
    \/ OnCycleCall

SpecWave == InitWave /\ [][NextWave]_vars

\* ------------------------------------------------------------ the claims
\* what a step did
EmittedNow == Len(emitted') = Len(emitted) + 1

AcceptedNow == lastOp' = "addSample" /\ cycleCount' = cycleCount + 1

NewPeakNow ==
    /\ lastOp' = "addSample"
    /\ Len(peaks') > 0
    /\ (Len(peaks) = 0 \/ Last(peaks') # Last(peaks))

\* the period between the two newest peaks of a history
LastPeriod(ps) == ps[Len(ps)] - ps[Len(ps) - 1]

InBand(period) ==
    /\ MIN_CADENCE_RPM * period <= MS_PER_MINUTE
    /\ MS_PER_MINUTE <= MAX_CADENCE_RPM * period

\* the summaries delivered since the last reset
EmittedThisEpoch == SelectSeq(emitted, LAMBDA e : e.epoch = epoch)

\* C1: a call of addSample invokes the listener at most once and only within
\* the call; hasStopped, reset and onCycle never invoke it.
C1_AtMostOneEmissionPerCall ==
    [][ /\ Len(emitted') <= Len(emitted) + 1
        /\ SubSeq(emitted', 1, Len(emitted)) = emitted
        /\ (lastOp' # "addSample" => emitted' = emitted) ]_vars

C1_Witness ==
    /\ epoch = 1
    /\ Len(emitted) >= 2
    /\ lastOp = "hasStopped"

\* C2: a summary is delivered only for a peak whose distance to the previous
\* peak of the history is between 500 and 1500 ms, its rpm is 60000/period
\* rounded and lies in 40..120; a new peak out of that band delivers nothing.
C2_EmissionOnlyInBand ==
    [][ /\ EmittedNow =>
              /\ NewPeakNow
              /\ Len(peaks') >= 2
              /\ Last(emitted').summary.timestamp = Last(peaks')
              /\ InBand(LastPeriod(peaks'))
              /\ 500 <= LastPeriod(peaks') /\ LastPeriod(peaks') <= 1500
              /\ Last(emitted').summary.rpm \in MIN_CADENCE_RPM..MAX_CADENCE_RPM
              /\ 2 * Abs(Last(emitted').summary.rpm * LastPeriod(peaks') - MS_PER_MINUTE)
                    <= LastPeriod(peaks')
        /\ (NewPeakNow /\ Len(peaks') >= 2 /\ ~InBand(LastPeriod(peaks')))
              => emitted' = emitted ]_vars

C2_Witness ==
    /\ Len(emitted) >= 1
    /\ Len(peaks) >= 3
    /\ \E i \in 2..Len(peaks) : peaks[i] - peaks[i - 1] > 1500
    /\ \E i \in 2..Len(peaks) : peaks[i] - peaks[i - 1] < 500

\* C5: hasStopped(ts) is true exactly when a cycle has been accepted since the
\* last reset and ts is more than 2000 ms after the last accepted cycle;
\* before any cycle is accepted it is false for every ts.
C5_StoppedIffCycleAndTimeout ==
    lastOp = "hasStopped" =>
        \A ts \in DOMAIN lastResult :
            lastResult[ts] = (cycleCount > 0 /\ ts - lastCycleTime > 2000)

C5_Witness ==
    /\ lastOp = "hasStopped"
    /\ cycleCount > 0
    /\ Len(peaks) > 0 /\ Last(peaks) # lastCycleTime
    /\ \E ts \in DOMAIN lastResult : lastResult[ts]
    /\ \E ts \in DOMAIN lastResult : ~lastResult[ts]

\* C6 as stated: while no summary has been delivered, hasStopped(ts) is false.
C6_FalseUntilFirstSummary ==
    (lastOp = "hasStopped" /\ EmittedThisEpoch = <<>>) =>
        \A ts \in DOMAIN lastResult : ~lastResult[ts]

\* C6 amended: hasStopped(ts) is false until a first cycle has been accepted,
\* which happens no later than the first delivered summary (a cycle accepted
\* with an empty angle buffer or without a listener delivers none).
C6_FalseUntilFirstAcceptedCycle ==
    /\ (lastOp = "hasStopped" /\ cycleCount = 0) =>
           \A ts \in DOMAIN lastResult : ~lastResult[ts]
    /\ EmittedThisEpoch # <<>> => cycleCount > 0

C6_Witness ==
    /\ lastOp = "hasStopped"
    /\ cycleCount = 0
    /\ Len(peaks) >= 2
    /\ \E ts \in DOMAIN lastResult : ts > STOP_TIMEOUT_MS

\* C7 as stated: with the last accepted cycle at T, hasStopped(ts) is true
\* exactly when ts - T >= 2000.
C7_StoppedAtTimeout ==
    (lastOp = "hasStopped" /\ cycleCount > 0) =>
        \A ts \in DOMAIN lastResult : lastResult[ts] = (ts - lastCycleTime >= 2000)

\* C7 amended: with the last accepted cycle at T, hasStopped(ts) is true
\* exactly when ts - T > 2000: false at T+1999 and at T+2000, true at T+2001.
C7_StoppedAfterTimeout ==
    (lastOp = "hasStopped" /\ cycleCount > 0) =>
        /\ \A ts \in DOMAIN lastResult : lastResult[ts] = (ts - lastCycleTime > 2000)
        /\ \A ts \in DOMAIN lastResult :
              /\ ts = lastCycleTime + 1999 => ~lastResult[ts]
              /\ ts = lastCycleTime + 2000 => ~lastResult[ts]
              /\ ts = lastCycleTime + 2001 => lastResult[ts]

C7_Witness ==
    /\ lastOp = "hasStopped"
    /\ cycleCount > 0
    /\ { lastCycleTime + 1999, lastCycleTime + 2000, lastCycleTime + 2001 }
          \subseteq DOMAIN lastResult

\* C8: right after an accepted cycle isSteady is: the history holds at least
\* 4 peaks and each of the 3 newest periods p differs from their mean m by
\* less than a quarter of m; with fewer than 4 peaks it is false.
SteadyByDefinition(ps) ==
    /\ Len(ps) >= 4
    /\ LET n == Len(ps)
           p1 == ps[n - 2] - ps[n - 3]
           p2 == ps[n - 1] - ps[n - 2]
           p3 == ps[n] - ps[n - 1]
           sum == p1 + p2 + p3
           \* |p - sum/3| / (sum/3) < 1/4   <=>   4 * |3p - sum| < sum
           dev(p) == Abs(3 * p - sum)
           worst == Max2(dev(p1), Max2(dev(p2), dev(p3)))
       IN  4 * worst < sum

C8_SteadyAfterAcceptedCycle ==
    [][ AcceptedNow => (isSteady' = SteadyByDefinition(peaks')) ]_vars

C8_Witness ==
    /\ lastOp = "addSample"
    /\ isSteady
    /\ Len(peaks) >= 4
    /\ lastCycleTime = Last(peaks)
    /\ peaks[Len(peaks) - 2] - peaks[Len(peaks) - 3] # LastPeriod(peaks)

\* C9: between two resets the delivered cycle numbers are at least 1 and
\* strictly increasing, each is the detector's cycleCount when delivered, and
\* the delivered timestamps are strictly increasing.
C9_CycleNumbersIncrease ==
    [][ /\ \A i \in 1..Len(emitted') : emitted'[i].summary.cycleNumber >= 1
        /\ \A i, j \in 1..Len(emitted') :
              (i < j /\ emitted'[i].epoch = emitted'[j].epoch) =>
                  /\ emitted'[i].summary.cycleNumber < emitted'[j].summary.cycleNumber
                  /\ emitted'[i].summary.timestamp < emitted'[j].summary.timestamp
        /\ EmittedNow => Last(emitted').summary.cycleNumber = cycleCount' ]_vars

C9_Witness ==
    /\ Len(emitted) >= 2
    /\ emitted[1].epoch = emitted[2].epoch
    /\ emitted[1].summary.cycleNumber = 2
    /\ emitted[2].summary.cycleNumber = 3

\* C10 as stated: a delivered summary aggregates exactly the angle sets of the
\* samples between the two peaks that define its cycle (the end points counted
\* or not): knee.max their greatest knee angle, hip.min their least hip angle,
\* torso.avg and elbow.avg their means.
AnglesBetween(h, lo, hi) ==
    LET inside == SelectSeq(h, LAMBDA e : lo <= e.t /\ e.t <= hi /\ Len(e.angles) = 1)
    IN  [k \in 1..Len(inside) |-> inside[k].angles[1]]

SameMean(p, q) == p[1] * q[2] = q[1] * p[2]

Aggregates(sm, as) ==
    /\ Len(as) > 0
    /\ sm.kneeMax = SeqMax([k \in 1..Len(as) |-> as[k].knee])
    /\ sm.hipMin = SeqMin([k \in 1..Len(as) |-> as[k].hip])
    /\ SameMean(sm.torsoAvg, << SumSeq([k \in 1..Len(as) |-> as[k].torso]), Len(as) >>)
    /\ SameMean(sm.elbowAvg, << SumSeq([k \in 1..Len(as) |-> as[k].elbow]), Len(as) >>)

C10_SummaryAggregatesTheCycle ==
    [][ EmittedNow =>
          LET sm == Last(emitted').summary
              hi == Last(peaks')
              lo == peaks'[Len(peaks') - 1]
          IN  \E a \in {0, 1}, b \in {0, 1} :
                  Aggregates(sm, AnglesBetween(history', lo + a, hi - b)) ]_vars

\* ---------------------------------------------- claims on periodic signals
\* sample periods completed since the first frame
PeriodsFed(periodMs) == (fed * wave.dt) \div periodMs

\* C3 as stated: a signal of period 600 ms fed for at least 5 periods delivers
\* one summary per completed period (the first periods, before two maxima have
\* been seen, excepted), each with rpm within 2 of 100, and isSteady is true
\* from the 4th delivered summary on.
C3_OneSummaryPerPeriod ==
    wave \in PeriodicWaves =>
        /\ Len(emitted) <= PeriodsFed(600)
        /\ PeriodsFed(600) >= 5 => Len(emitted) >= PeriodsFed(600) - 3
        /\ \A i \in 1..Len(emitted) : Abs(emitted[i].summary.rpm - 100) <= 2
        /\ Len(emitted) >= 4 => isSteady

\* the same for the sampled signals with a sample on every maximum
C3_HoldsWithSampleOnMaximum ==
    wave \in { Tri600x100, Tri600x50 } =>
        /\ Len(emitted) <= PeriodsFed(600)
        /\ PeriodsFed(600) >= 5 => Len(emitted) >= PeriodsFed(600) - 3
        /\ \A i \in 1..Len(emitted) : emitted[i].summary.rpm = 100
        /\ Len(emitted) >= 3 => isSteady

\* the frames that carried a maximum 400 ms after the previous maximum
ShortPeriodEnds ==
    { history[i].t : i \in { k \in 9..Len(history) :
                               history[k].y = 60 /\ history[k - 8].y = 60 } }

\* C4 as stated: with maxima alternately 1500 ms and 400 ms apart isSteady is
\* never true and no summary is delivered for a 400 ms period (none carries
\* the time of a maximum that ends one, to within a frame).
C4_NoSummaryForShortPeriod ==
    wave \in AlternatingWaves =>
        /\ ~isSteady
        /\ \A i \in 1..Len(emitted) : \A t \in ShortPeriodEnds :
              Abs(emitted[i].summary.timestamp - t) > wave.dt

\* what holds of both alternating signals
C4_NeverSteady ==
    wave \in AlternatingWaves => ~isSteady

\* C11: an accepted cycle delivers a summary exactly when the angle buffer
\* (the angle set of the current call included) is non-empty and a listener is
\* registered; while only null angle sets have been passed nothing is ever
\* delivered, yet each accepted cycle is counted, sets lastCycleTime to its
\* peak and recomputes isSteady.
C11_EmitsIffBufferAndListener ==
    [][ /\ AcceptedNow =>
              /\ EmittedNow <=>
                    /\ (Len(currentCycleAngles) > 0 \/ anglesOn)
                    /\ onCycleCallback
              /\ lastCycleTime' = Last(peaks')
              /\ isSteady' = steadyValue(peaks')
              /\ currentCycleAngles' = <<>>
        /\ (\A i \in 1..Len(history') : history'[i].angles = <<>>) =>
              ~EmittedNow ]_vars

C11_Witness ==
    /\ ~anglesOn
    /\ onCycleCallback
    /\ epoch = 0
    /\ emitted = <<>>
    /\ cycleCount >= 3
    /\ lastCycleTime = Last(peaks)
    /\ isSteady

\* a newly constructed CadenceDetector, its listener then set or not
NewCadenceDetector(listener) ==
    [ samples |-> <<>>, peaks |-> <<>>, troughs |-> <<>>, isSteady |-> FALSE,
      lastCycleTime |-> 0, cycleCount |-> 0, onCycleCallback |-> listener,
      currentCycleAngles |-> <<>>, emitted |-> <<>>, epoch |-> 0 ]

\* the fields of the object (the listener's log and the reset count are not)
Fields(d) ==
    << d.samples, d.peaks, d.troughs, d.isSteady, d.lastCycleTime,
       d.cycleCount, d.onCycleCallback, d.currentCycleAngles >>

\* the addSample calls of h made one after the other on detector d
RECURSIVE Replay(_, _)
Replay(d, h) ==
    IF h = <<>> THEN d
    ELSE Replay(addSample(d, h[1].t, h[1].y, h[1].angles), Tail(h))

Summaries(log) == [i \in 1..Len(log) |-> log[i].summary]

\* timestamps from 0 to well past the stop timeout
ProbeTimes == { 0, clock, lastCycleTime + STOP_TIMEOUT_MS + 1 }
              \cup { clock + k * (STOP_TIMEOUT_MS + 1) : k \in 1..4 }

\* C12: right after reset() every field has the value it has in a newly
\* constructed detector and hasStopped is false for every timestamp; from
\* then on the fields, and the summaries delivered, are those a new instance
\* has after the same addSample calls (so cycle numbers start again at 1).
C12_ResetEqualsNew ==
    /\ lastOp = "reset" =>
          /\ Fields(Det) = Fields(NewCadenceDetector(FALSE))
          /\ \A ts \in ProbeTimes : ~hasStopped(Det, ts)
    /\ epoch >= 1 =>
          LET fresh == Replay(NewCadenceDetector(onCycleCallback), history)
          IN  /\ Fields(Det) = Fields(fresh)
              /\ Summaries(EmittedThisEpoch) = Summaries(fresh.emitted)
              /\ \A ts \in ProbeTimes : hasStopped(Det, ts) = hasStopped(fresh, ts)
              /\ EmittedThisEpoch # <<>> => EmittedThisEpoch[1].summary.cycleNumber >= 1

C12_Witness ==
    /\ epoch = 1
    /\ \E i \in 1..Len(emitted) : emitted[i].epoch = 0
    /\ EmittedThisEpoch # <<>>
    /\ EmittedThisEpoch[1].summary.cycleNumber = 1

\* the times of the addSample calls made since the last reset
TimesSinceReset == { history[k].t : k \in 1..Len(history) }

\* whether s is made of elements of h in the order they have in h
RECURSIVE IsSubSeq(_, _)
IsSubSeq(s, h) ==
    IF s = <<>> THEN TRUE
    ELSE IF h = <<>> THEN FALSE
    ELSE IF s[1] = h[1] THEN IsSubSeq(Tail(s), Tail(h))
    ELSE IsSubSeq(s, Tail(h))

\* what the detector holds comes from the calls made since the last reset
FromCallsSinceReset ==
    /\ IsSubSeq(samples, [k \in 1..Len(history) |-> [ t |-> history[k].t, y |-> history[k].y ]])
    /\ IsSubSeq(currentCycleAngles, AnglesBetween(history, 0, clock))
    /\ \A i \in 1..Len(peaks) : peaks[i] \in TimesSinceReset
    /\ \A i \in 1..Len(troughs) : troughs[i] \in TimesSinceReset
    /\ lastCycleTime \in TimesSinceReset \cup {0}
    /\ cycleCount <= Max2(Len(peaks), 1) - 1
    /\ isSteady => Len(peaks) >= MIN_CYCLES_FOR_STEADY + 1
    /\ \A i \in 1..Len(EmittedThisEpoch) :
          LET sm == EmittedThisEpoch[i].summary
          IN  /\ sm.timestamp \in TimesSinceReset
              /\ sm.cycleNumber <= cycleCount
              /\ sm.torsoAvg[2] <= Len(AnglesBetween(history, 0, clock))

\* C13: reset() delivers nothing, and afterwards the samples, peaks, troughs,
\* angle buffer, cycle count, steadiness and summaries are made of the calls
\* that followed the reset only: every peak and summary carries the time of
\* such a call, isSteady needs 4 such peaks, and the first summary after the
\* reset aggregates exactly the angle sets passed since the reset.
C13_NothingSurvivesReset ==
    [][ /\ lastOp' = "reset" => emitted' = emitted
        /\ epoch' >= 1 => FromCallsSinceReset'
        /\ (EmittedNow /\ epoch >= 1 /\ cycleCount = 0) =>
              Aggregates(Last(emitted').summary, AnglesBetween(history', 0, clock')) ]_vars

C13_Witness ==
    /\ epoch = 1
    /\ anglesOn
    /\ lastOp = "addSample"
    /\ emitted # <<>>
    /\ emitted[1].epoch = 0
    /\ Last(emitted).epoch = 1
    /\ Len(peaks) >= 2

\* ------------------------------ SpecQuiet: a signal that hardly moves
MaxQuietSamples == 14

\* one frame every 100 ms, the knee at 32/64 or one unit (1/64) above it
QuietLevels == { [ dt |-> 100, pat |-> << 32 >> ], [ dt |-> 100, pat |-> << 33 >> ] }

QuietFrame ==
    /\ fed < MaxQuietSamples
    /\ \E next \in QuietLevels : Frame(next)

InitQuiet ==
    /\ InitDetector
    /\ clock = 0
    /\ wave \in QuietLevels
    /\ pos = 1
    /\ strokes = 0
    /\ anglesOn = TRUE
    /\ fed = 0
    /\ history = <<>>
    /\ lastOp = "new"
    /\ lastResult = <<>>
    /\ cycleData = <<>>
    /\ InitApp

NextQuiet ==
    \/ QuietFrame
    \/ OnCycleCall

SpecQuiet == InitQuiet /\ [][NextQuiet]_vars

\* the positions in the sample window when the k-th call of history was made
WindowAt(k) ==
    LET upTo == SubSeq(history, 1, k)
        kept == SelectSeq(upTo, LAMBDA e : e.t >= history[k].t - WINDOW_DURATION_MS)
    IN  [i \in 1..Len(kept) |-> kept[i].y]

\* |mean of ys[i-2..i+2] - mean of ys| <= 0.01, positions in 1/64
WithinOnePercent(ys, i) ==
    LET five == ys[i - 2] + ys[i - 1] + ys[i] + ys[i + 1] + ys[i + 2]
        n == Len(ys)
    IN  100 * Abs(five * n - 5 * SumSeq(ys)) <= 64 * 5 * n

\* whenever a sample was examined (11 samples or more in the window, the
\* sample 5 behind the newest), its smoothed position was within 0.01 of the
\* window's mean
QuietSoFar ==
    \A k \in 1..Len(history) :
        Len(WindowAt(k)) >= 11 => WithinOnePercent(WindowAt(k), Len(WindowAt(k)) - 5)

ConstantSoFar == \A k \in 1..Len(history) : history[k].y = history[1].y

\* C14: while the smoothed position of every examined sample stays within
\* 0.01 of its window's mean (a constant signal always does), no peak and no
\* trough is recorded, no cycle is accepted, nothing is delivered, isSteady is
\* false and hasStopped is false for every timestamp.
C14_QuietSignalDetectsNothing ==
    /\ ConstantSoFar => QuietSoFar
    /\ QuietSoFar =>
          /\ peaks = <<>>
          /\ troughs = <<>>
          /\ cycleCount = 0
          /\ lastCycleTime = 0
          /\ emitted = <<>>
          /\ ~isSteady
          /\ \A ts \in ProbeTimes : ~hasStopped(Det, ts)

\* a rise that the smoothing turns into a strict maximum, too small to count
C14_Witness ==
    /\ fed = MaxQuietSamples
    /\ onCycleCallback
    /\ QuietSoFar
    /\ ~ConstantSoFar
    /\ \E k \in 11..Len(history) :
          isPeakAt([i \in 1..k |-> [ t |-> history[i].t, y |-> history[i].y ]], k - 1 - lookback)

\* ---------------------------------- SpecTrim: a recorded session, trimmed
MaxTrimCycles == 4

\* the times cycles are recorded at: 5000 ms apart and just under or over,
\* and more than 10000 ms apart
TrimTimes == { 1000, 1001, 3500, 5999, 6000, 6001, 8500, 11000, 11001, 12000 }

\* the n-th summary the listener receives, for a cycle at time ts
SummaryAt(n, ts) ==
    [ cycleNumber |-> n, timestamp |-> ts, rpm |-> 90,
      kneeMax |-> 140, hipMin |-> 70, torsoAvg |-> << 40, 1 >>, elbowAvg |-> << 160, 1 >> ]

\* the listener of the app: cycleData.push(summary)
Push(summary) ==
    /\ lastOp \in { "new", "push" }
    /\ cycleData' = Append(cycleData, summary)
    /\ lastOp' = "push"
    /\ lastResult' = <<>>
    /\ UNCHANGED << detVars, envVars, history, appVars >>

TrimPush ==
    /\ Len(cycleData) < MaxTrimCycles
    /\ \E ts \in TrimTimes :
          /\ (IF cycleData = <<>> THEN TRUE ELSE ts >= Last(cycleData).timestamp)
          /\ Push(SummaryAt(Len(cycleData) + 1, ts))

\* cycleData = trimCycles(cycleData); the argument and the value are kept
TrimCyclesCall ==
    /\ cycleData' = trimCycles(cycleData)
    /\ lastOp' = "trimCycles"
    /\ lastResult' = [ input |-> cycleData, output |-> trimCycles(cycleData) ]
    /\ UNCHANGED << detVars, envVars, history, appVars >>

InitSession ==
    /\ InitDetector
    /\ clock = 0
    /\ wave = Tri600x100
    /\ pos = 1
    /\ strokes = 0
    /\ anglesOn = TRUE
    /\ fed = 0
    /\ history = <<>>
    /\ lastOp = "new"
    /\ lastResult = <<>>
    /\ cycleData = <<>>
    /\ InitApp

NextTrim ==
    \/ TrimPush
    \/ TrimCyclesCall

SpecTrim == InitSession /\ [][NextTrim]_vars

\* time between the first and the last cycle of a list
Span(cd) == IF Len(cd) = 0 THEN 0 ELSE cd[Len(cd)].timestamp - cd[1].timestamp

\* C15 as stated: trimCycles applied to its own result changes nothing.
C15_TrimIdempotent ==
    lastOp = "trimCycles" => trimCycles(lastResult.output) = lastResult.output

\* C15 amended: trimCycles applied to its own result T changes nothing exactly
\* when T has at most one entry or spans at most 5000 ms, which is so whenever
\* the list trimmed first spans at most 10000 ms; otherwise it drops the last
\* entry of T at least.
C15_TrimIdempotentOnShortResult ==
    lastOp = "trimCycles" =>
        LET T == lastResult.output
        IN  /\ (trimCycles(T) = T) <=> (Len(T) <= 1 \/ Span(T) <= 5000)
            /\ Span(lastResult.input) <= 10000 => trimCycles(T) = T
            /\ trimCycles(T) # T => Len(trimCycles(T)) < Len(T)

C15_Witness ==
    /\ lastOp = "trimCycles"
    /\ Span(lastResult.input) > 5000
    /\ Span(lastResult.input) <= 10000
    /\ Len(lastResult.output) >= 2
    /\ Span(lastResult.output) > 0

\* C16: trimCycles returns its argument, the same elements in the same order,
\* when it has at most one entry or its last and first timestamps are at most
\* 5000 ms apart.
C16_ShortSessionUntouched ==
    (lastOp = "trimCycles" /\ (Len(lastResult.input) <= 1 \/ Span(lastResult.input) <= 5000)) =>
        lastResult.output = lastResult.input

C16_Witness ==
    /\ lastOp = "trimCycles"
    /\ Len(lastResult.input) >= 3
    /\ Span(lastResult.input) = 5000
    /\ lastResult.output = lastResult.input

\* C17: when the list spans more than 5000 ms, the result is the cycles with
\* timestamp <= last timestamp - 5000, in their order: a prefix of the list,
\* every cycle after it later than that, however many cycles that is.
C17_DropsTrailingWindow ==
    (lastOp = "trimCycles" /\ Span(lastResult.input) > 5000) =>
        LET L == lastResult.input
            cut == L[Len(L)].timestamp - 5000
        IN  \E k \in 1..(Len(L) - 1) :
                /\ lastResult.output = SubSeq(L, 1, k)
                /\ \A i \in 1..k : L[i].timestamp <= cut
                /\ \A i \in (k + 1)..Len(L) : L[i].timestamp > cut

C17_Witness ==
    /\ lastOp = "trimCycles"
    /\ Len(lastResult.input) = 4
    /\ Len(lastResult.output) = 2
    /\ lastResult.output[2].timestamp = lastResult.input[4].timestamp - 5000
    /\ lastResult.input[3].timestamp = lastResult.input[4].timestamp - 4999

\* ------------------------------- SpecAnalyze: a recorded session, analysed
MaxAnalyzed == 3

\* how far a cycle's angles lie above the lower targets, in degrees
Offsets == { -12, -10, -8, -5, 5, 15, 25, 27, 37 }

\* with half = 1 the cycle's torso average lies half a degree higher
CycleKinds ==
    { [ off |-> o, half |-> 0 ] : o \in Offsets }
    \cup { [ off |-> 5, half |-> 1 ], [ off |-> -10, half |-> 1 ] }

\* the n-th summary the listener receives, 3 s after the one before
AnalyzedSummary(n, kind) ==
    [ cycleNumber |-> n, timestamp |-> 3000 * n, rpm |-> 20,
      kneeMax |-> 135 + kind.off, hipMin |-> 60 + kind.off,
      torsoAvg |-> << 2 * (30 + kind.off) + kind.half, 2 >>,
      elbowAvg |-> << 145 + kind.off, 1 >> ]

AnalyzePush ==
    /\ Len(cycleData) < MaxAnalyzed
    /\ \E kind \in CycleKinds : Push(AnalyzedSummary(Len(cycleData) + 1, kind))

\* analyzeSession(cycleData); the argument and the value are kept
AnalyzeSessionCall ==
    /\ lastOp' = "analyzeSession"
    /\ lastResult' = [ input |-> cycleData, output |-> analyzeSession(cycleData) ]
    /\ UNCHANGED << detVars, envVars, history, cycleData, appVars >>

\* finalizeAnalysis(): what setStatus was called with last, and what
\* renderRecommendations was called with (<<>> when it was not called)
finalizeAnalysis(cd) ==
    IF Len(cd) = 0
    THEN [ cycleData |-> cd, statusText |-> "No pedal cycles captured. Try again.",
           rendered |-> <<>> ]
    ELSE LET trimmed == trimCycles(cd)
         IN  IF Len(trimmed) = 0
             THEN [ cycleData |-> trimmed,
                    statusText |-> "No valid pedal cycles after filtering. Try again.",
                    rendered |-> <<>> ]
             ELSE [ cycleData |-> trimmed, statusText |-> "Analysis complete",
                    rendered |-> << analyzeSession(trimmed) >> ]

FinalizeAnalysisCall ==
    /\ lastOp \in { "new", "push" }
    /\ cycleData' = finalizeAnalysis(cycleData).cycleData
    /\ lastOp' = "finalizeAnalysis"
    /\ lastResult' = [ input |-> cycleData,
                       statusText |-> finalizeAnalysis(cycleData).statusText,
                       rendered |-> finalizeAnalysis(cycleData).rendered ]
    /\ UNCHANGED << detVars, envVars, history, appVars >>

NextAnalyze ==
    \/ AnalyzePush
    \/ AnalyzeSessionCall
    \/ FinalizeAnalysisCall

SpecAnalyze == InitSession /\ [][NextAnalyze]_vars

\* the per-cycle values of channel i of an analysed list, over one denominator
ChannelNums(cd, i) == Scaled(valuesOf(cd, Channels[i]))

ChannelDen(cd, i) == CommonDen(valuesOf(cd, Channels[i]))

\* C18: each channel is classified by its session mean M alone: green with the
\* good text iff targetMin <= M <= targetMax; below targetMin the low text,
\* red iff targetMin - M > 10 and yellow otherwise (exactly 10 is yellow, 12
\* is red, 8 is yellow); above targetMax the high text, likewise.
C18_StatusFromMean ==
    (lastOp = "analyzeSession" /\ lastResult.input # <<>>) =>
        \A i \in 1..Len(lastResult.output) :
            LET r == lastResult.output[i]
                den == Len(lastResult.input) * ChannelDen(lastResult.input, i)
                num == SumSeq(ChannelNums(lastResult.input, i))   \* M = num / den
                lo == r.targetMin * den
                hi == r.targetMax * den
            IN  /\ (r.status = "green") <=> (lo <= num /\ num <= hi)
                /\ (r.suggestion = "goodSuggestion") <=> (r.status = "green")
                /\ num < lo =>
                      /\ r.suggestion = "lowSuggestion"
                      /\ r.status = IF lo - num > 10 * den THEN "red" ELSE "yellow"
                      /\ lo - num = 12 * den => r.status = "red"
                      /\ lo - num = 10 * den => r.status = "yellow"
                      /\ lo - num = 8 * den => r.status = "yellow"
                /\ num > hi =>
                      /\ r.suggestion = "highSuggestion"
                      /\ r.status = IF num - hi > 10 * den THEN "red" ELSE "yellow"
                      /\ num - hi = 12 * den => r.status = "red"
                      /\ num - hi = 10 * den => r.status = "yellow"

\* two cycles, 12 and 8 below the lower targets: a mean exactly 10 below
C18_Witness ==
    /\ lastOp = "analyzeSession"
    /\ Len(lastResult.input) = 2
    /\ lastResult.input[1].kneeMax = 123
    /\ lastResult.input[2].kneeMax = 127
    /\ lastResult.output[1].status = "yellow"
    /\ lastResult.output[1].suggestion = "lowSuggestion"

\* C19: for a non-empty list there are four results, knee, hip, torso, elbow;
\* avg, min and max are the mean, least and greatest of the channel's values
\* to the nearest tenth, std is their population standard deviation to the
\* nearest tenth, min <= avg <= max and std >= 0; knee values 140, 160, 130
\* give avg 143.3, min 130, max 160 and, with target 135..150, green.
C19_StatisticsOfTheCycles ==
    (lastOp = "analyzeSession" /\ lastResult.input # <<>>) =>
        /\ Len(lastResult.output) = 4
        /\ [i \in 1..4 |-> lastResult.output[i].key] = << "knee", "hip", "torso", "elbow" >>
        /\ \A i \in 1..4 :
              LET r == lastResult.output[i]
                  w == ChannelNums(lastResult.input, i)
                  D == ChannelDen(lastResult.input, i)
                  n == Len(w)
                  S == SumSeq(w)
                  \* variance = (n sum(w^2) - S^2) / (n D)^2
                  varNum == n * SumSeq([k \in 1..n |-> w[k] * w[k]]) - S * S
                  varDen == n * n * D * D
              IN  /\ 2 * Abs(10 * S - r.avg * n * D) <= n * D
                  /\ 2 * Abs(10 * SeqMin(w) - r.min * D) <= D
                  /\ 2 * Abs(10 * SeqMax(w) - r.max * D) <= D
                  /\ r.std >= 0
                  /\ r.std > 0 => (2 * r.std - 1) * (2 * r.std - 1) * varDen <= 400 * varNum
                  /\ 400 * varNum <= (2 * r.std + 1) * (2 * r.std + 1) * varDen
                  /\ r.min <= r.avg /\ r.avg <= r.max
        /\ [k \in 1..Len(lastResult.input) |-> lastResult.input[k].kneeMax] = << 140, 160, 130 >> =>
              /\ lastResult.output[1].avg = 1433
              /\ lastResult.output[1].min = 1300
              /\ lastResult.output[1].max = 1600
              /\ lastResult.output[1].targetMin = 135
              /\ lastResult.output[1].targetMax = 150
              /\ lastResult.output[1].status = "green"

C19_Witness ==
    /\ lastOp = "analyzeSession"
    /\ [k \in 1..Len(lastResult.input) |-> lastResult.input[k].kneeMax] = << 140, 160, 130 >>
    /\ lastResult.input[1].torsoAvg = << 71, 2 >>
    /\ lastResult.output[1].std = 125
    /\ lastResult.output[3].avg = 385

\* a list of per-channel results, of whatever length
IsResultList(v) ==
    /\ DOMAIN v = 1..Len(v)
    /\ \A i \in 1..Len(v) : v[i].key \in { Channels[k] : k \in 1..Len(Channels) }

\* C20 as stated: a session without cycles gives an outcome of its own:
\* analyzeSession of the empty list does not return a list of results, and
\* finalizeAnalysis neither renders recommendations nor reports "Analysis
\* complete" when the list is empty before or after trimming.
C20_EmptySessionIsItsOwnOutcome ==
    /\ (lastOp = "analyzeSession" /\ lastResult.input = <<>>) =>
          ~IsResultList(lastResult.output)
    /\ (lastOp = "finalizeAnalysis"
            /\ (lastResult.input = <<>> \/ trimCycles(lastResult.input) = <<>>)) =>
          /\ lastResult.rendered = <<>>
          /\ lastResult.statusText # "Analysis complete"

\* what holds: the app reports an empty session as such, and analyses and
\* renders four results otherwise
C20_AppReportsEmptySession ==
    lastOp = "finalizeAnalysis" =>
        IF lastResult.input = <<>>
        THEN /\ lastResult.rendered = <<>>
             /\ lastResult.statusText = "No pedal cycles captured. Try again."
        ELSE /\ lastResult.statusText = "Analysis complete"
             /\ Len(lastResult.rendered) = 1
             /\ Len(lastResult.rendered[1]) = 4
             /\ cycleData # <<>>

\* ------------------ SpecRide: pedalling interrupted by stretches without
\* a sample (frames in which the knee is not tracked), listener set, angles on
MaxRideSamples == 40
MaxPauses == 1

\* 240 ms strokes sampled every 40 ms: maxima closer than the minimum gap
Tri240x40 == Tri(40, 3, 16, 8)

RideStrokes == { Tri600x100, Quick400x50, Tri240x40 }

\* how long the knee stays out of sight
PauseLengths == { 3000, 9000 }

\* the interruptions so far, read off the timestamps of the calls
PausesTaken ==
    Cardinality({ k \in 2..Len(history) : history[k].t - history[k - 1].t >= 3000 })

RideFrame ==
    /\ onCycleCallback
    /\ fed < MaxRideSamples
    /\ \E next \in (IF pos < Len(wave.pat) THEN { wave } ELSE RideStrokes) : Frame(next)

\* onFrame without a knee landmark: time passes, addSample is not called
Pause ==
    /\ onCycleCallback
    /\ pos = 1
    /\ fed > 0
    /\ PausesTaken < MaxPauses
    /\ lastOp # "pause"
    /\ \E gap \in PauseLengths : clock' = clock + gap
    /\ lastOp' = "pause"
    /\ lastResult' = <<>>
    /\ UNCHANGED << detVars, wave, pos, strokes, anglesOn, fed, history, cycleData, appVars >>

InitRide ==
    /\ InitDetector
    /\ clock = 0
    /\ wave = Tri600x100
    /\ pos = 1
    /\ strokes = 0
    /\ anglesOn = TRUE
    /\ fed = 0
    /\ history = <<>>
    /\ lastOp = "new"
    /\ lastResult = <<>>
    /\ cycleData = <<>>
    /\ InitApp

NextRide ==
    \/ RideFrame
    \/ Pause
    \/ OnCycleCall

SpecRide == InitRide /\ [][NextRide]_vars

\* the period a new peak closes, measured from the newest peak before the call
ClosedPeriod == Last(peaks') - Last(peaks)

\* C25: when a call records a new peak whose distance from the previous peak
\* gives a cadence outside [40, 120] RPM, the call changes no cycle-level
\* state: cycleCount, lastCycleTime and isSteady keep their values, nothing
\* is delivered, and the angle buffer is what it was plus the snapshot of the
\* call's own sample.
C25_OutOfBandPeakChangesNothing ==
    [][ (NewPeakNow /\ Len(peaks) > 0 /\ ~InBand(ClosedPeriod))
            => /\ cycleCount' = cycleCount
               /\ lastCycleTime' = lastCycleTime
               /\ isSteady' = isSteady
               /\ emitted' = emitted
               /\ currentCycleAngles' = currentCycleAngles \o Last(history').angles ]_vars

\* a steady rider's peak has just been rejected: the newest peak was recorded
\* by the last call, lies out of band after the peak of the last accepted
\* cycle, and the buffer still holds the snapshots fed since that cycle
C25_Witness ==
    /\ lastOp = "addSample"
    /\ isSteady
    /\ Len(samples) > 2 * lookback
    /\ Len(peaks) >= 2
    /\ Last(peaks) = samples[Len(samples) - lookback].t
    /\ ~InBand(LastPeriod(peaks))
    /\ lastCycleTime = peaks[Len(peaks) - 1]
    /\ Len(currentCycleAngles) > lookback

\* the cycles accepted since the last reset, counted on the peak history
\* (no peak is evicted within the horizon of Spec)
InBandPairs(ps) == { i \in 2..Len(ps) : InBand(ps[i] - ps[i - 1]) }

\* snapshots handed to addSample since the last reset
SnapshotsFed == Cardinality({ k \in 1..Len(history) : history[k].angles # <<>> })

\* snapshots that went into the summaries delivered since the last reset
SnapshotsEmitted ==
    SumSeq([i \in 1..Len(EmittedThisEpoch) |-> EmittedThisEpoch[i].summary.torsoAvg[2]])

\* C26: a call that records a peak in band after the previous peak (an
\* accepted cycle) raises cycleCount by exactly 1, sets lastCycleTime to that
\* peak's timestamp and leaves the angle buffer empty, with or without a
\* summary; no other addSample call changes cycleCount.  Hence cycleCount is
\* the number of accepted cycles since the reset, and the snapshots counted
\* in the delivered summaries plus those still buffered never exceed the
\* snapshots fed: none contributes to two summaries.
C26_AcceptedCycleBookkeeping ==
    [][ /\ (NewPeakNow /\ Len(peaks) > 0 /\ InBand(ClosedPeriod))
            => /\ cycleCount' = cycleCount + 1
               /\ lastCycleTime' = Last(peaks')
               /\ currentCycleAngles' = <<>>
        /\ (lastOp' = "addSample" /\ ~(NewPeakNow /\ Len(peaks) > 0 /\ InBand(ClosedPeriod)))
            => cycleCount' = cycleCount
        /\ cycleCount' = Cardinality(InBandPairs(peaks'))
        /\ SnapshotsEmitted' + Len(currentCycleAngles') <= SnapshotsFed' ]_vars

\* a second cycle has just been accepted while angle sets were passed and no
\* listener was set: nothing was delivered and the buffer is empty
C26_Witness ==
    /\ lastOp = "addSample"
    /\ anglesOn
    /\ ~onCycleCallback
    /\ cycleCount >= 2
    /\ Len(samples) > 2 * lookback
    /\ Last(peaks) = samples[Len(samples) - lookback].t
    /\ lastCycleTime = Last(peaks)
    /\ SnapshotsFed > lookback
    /\ currentCycleAngles = <<>>
    /\ emitted = <<>>

\* the sample a call examines, once 2 * lookback + 1 samples are buffered
Examined(ss) == ss[Len(ss) - lookback]

NewTroughNow ==
    /\ lastOp' = "addSample"
    /\ Len(troughs') > 0
    /\ (Len(troughs) = 0 \/ Last(troughs') # Last(troughs))

FarApart(hist) == \A i \in 2..Len(hist) : hist[i] - hist[i - 1] >= MIN_PEAK_GAP_MS

\* C27: with non-decreasing timestamps, any two consecutive entries of the
\* peak history are at least 300 ms apart, and so are those of the trough
\* history; a call whose examined sample lies less than 300 ms after the
\* newest peak records no peak and runs no cycle check (cycleCount,
\* lastCycleTime, isSteady and the listener's log are untouched), and one
\* whose examined sample lies less than 300 ms after the newest trough
\* records no trough.
C27_MinimumGapBetweenExtrema ==
    [][ /\ FarApart(peaks')
        /\ FarApart(troughs')
        /\ (lastOp' = "addSample" /\ Len(samples') > 2 * lookback)
            => /\ (Len(peaks) > 0 /\ Examined(samples').t - Last(peaks) < MIN_PEAK_GAP_MS)
                    => /\ ~NewPeakNow
                       /\ cycleCount' = cycleCount
                       /\ lastCycleTime' = lastCycleTime
                       /\ isSteady' = isSteady
                       /\ emitted' = emitted
               /\ (Len(troughs) > 0 /\ Examined(samples').t - Last(troughs) < MIN_PEAK_GAP_MS)
                    => ~NewTroughNow ]_vars

\* the last call examined a prominent strict maximum of the smoothed signal
\* that lies less than 300 ms after the newest peak, and did not record it
C27_Witness ==
    /\ lastOp = "addSample"
    /\ Len(samples) > 2 * lookback
    /\ isPeakAt(samples, Len(samples) - 1 - lookback)
    /\ prominent(samples, Len(samples) - 1 - lookback)
    /\ Len(peaks) > 0
    /\ Examined(samples).t > Last(peaks)
    /\ Examined(samples).t - Last(peaks) < MIN_PEAK_GAP_MS

\* s is what remains of h after dropping entries from its front
IsSuffix(s, h) ==
    /\ Len(s) <= Len(h)
    /\ \A k \in 1..Len(s) : s[k] = h[Len(h) - Len(s) + k]

\* C28: after every addSample(t, y, ...) with non-decreasing timestamps,
\* every buffered sample has a timestamp >= t - 4000, the sample just added
\* is the newest of the buffer, and the buffer is the old buffer followed by
\* that sample with entries dropped from the front only, so that it is in
\* insertion order with non-decreasing timestamps.
C28_WindowHoldsRecentSamples ==
    [][ lastOp' = "addSample"
            => LET call == Last(history')
               IN  /\ \A k \in 1..Len(samples') :
                          samples'[k].t >= call.t - WINDOW_DURATION_MS
                   /\ Len(samples') > 0
                   /\ Last(samples') = [ t |-> call.t, y |-> call.y ]
                   /\ IsSuffix(samples', Append(samples, [ t |-> call.t, y |-> call.y ]))
                   /\ \A k \in 2..Len(samples') : samples'[k - 1].t <= samples'[k].t ]_vars

\* the call after a pause dropped several samples at once and kept others
\* from before the pause
C28_Witness ==
    /\ lastOp = "addSample"
    /\ Len(samples) >= 3
    /\ Len(history) >= Len(samples) + 3
    /\ Last(samples).t - samples[Len(samples) - 1].t >= 3000
    /\ samples[1].t >= Last(samples).t - WINDOW_DURATION_MS

\* C29: after every addSample(t, ...) every timestamp retained in the peak
\* history and in the trough history is >= t - 8000, also after a long gap
\* between samples that leaves fewer than 11 samples in the window.
C29_HistoryHoldsRecentExtrema ==
    [][ lastOp' = "addSample"
            => LET t == Last(history').t
               IN  /\ \A i \in 1..Len(peaks') : peaks'[i] >= t - 2 * WINDOW_DURATION_MS
                   /\ \A i \in 1..Len(troughs') : troughs'[i] >= t - 2 * WINDOW_DURATION_MS ]_vars

\* the same for the calls that reach the trim at the end of _detectPeaks,
\* those that leave at least 2 * lookback + 1 samples in the window
C29_TrimmedWhenDetectionRuns ==
    [][ (lastOp' = "addSample" /\ Len(samples') > 2 * lookback)
            => LET t == Last(history').t
               IN  /\ \A i \in 1..Len(peaks') : peaks'[i] >= t - 2 * WINDOW_DURATION_MS
                   /\ \A i \in 1..Len(troughs') : troughs'[i] >= t - 2 * WINDOW_DURATION_MS ]_vars

\* a peak older than twice the window was dropped by a call made after a pause
C29_TrimWitness ==
    /\ lastOp = "addSample"
    /\ Len(samples) > 2 * lookback
    /\ cycleCount > Len(peaks)
    /\ \E k \in 2..Len(history) : history[k].t - history[k - 1].t >= 9000

\* the moving average at position i (1-based) of a buffer: the mean of the
\* samples at most `radius` positions away that are in the buffer, as the
\* pair <<sum, count>>
MovingAverage(ss, i) ==
    LET near == { k \in 1..Len(ss) : Abs(k - i) <= radius }
        lo == CHOOSE k \in near : \A j \in near : k <= j
    IN  << SumSeq([k \in 1..Cardinality(near) |-> ss[lo + k - 1].y]), Cardinality(near) >>

\* p < q for averages <<sum, count>>
AvgLess(p, q) == p[1] * q[2] < q[1] * p[2]

\* the positions at most `lookback` away from position i, i excluded
Around(i) == { k \in (i - lookback)..(i + lookback) : k # i }

Undefined == -1

VISIBILITY_THRESHOLD == 60

SIDE_LANDMARKS ==
    [ left  |-> [ shoulder |-> 11, elbow |-> 13, wrist |-> 15,
                  hip |-> 23, knee |-> 25, ankle |-> 27 ],
      right |-> [ shoulder |-> 12, elbow |-> 14, wrist |-> 16,
                  hip |-> 24, knee |-> 26, ankle |-> 28 ] ]

LandmarkNames == { "shoulder", "elbow", "wrist", "hip", "knee", "ankle" }

\* Math.atan2(y, x) and the angle in degrees derived from it, kept exactly as
\* the direction it measures: the pair <<y, x>> in lowest terms, two pairs
\* being equal iff the angles are; Math.atan2(0, 0) is 0, the angle of <<0, 1>>
atan2(y, x) ==
    IF x = 0 /\ y = 0 THEN << 0, 1 >>
    ELSE LET g == Gcd(Abs(y), Abs(x)) IN << y \div g, x \div g >>

\* the multiples of 45 degrees that enclose an angle: <<low, high>>, equal
\* when the angle is such a multiple itself
DegreesBetween(angle) ==
    LET s == Abs(angle[1])
        c == angle[2]
        up == IF s = 0 THEN (IF c > 0 THEN << 0, 0 >> ELSE << 180, 180 >>)
              ELSE IF c > 0 THEN (IF s < c THEN << 0, 45 >>
                                  ELSE IF s = c THEN << 45, 45 >> ELSE << 45, 90 >>)
              ELSE IF c = 0 THEN << 90, 90 >>
              ELSE IF s > -c THEN << 90, 135 >>
              ELSE IF s = -c THEN << 135, 135 >> ELSE << 135, 180 >>
    IN  IF angle[1] >= 0 THEN up ELSE << -up[2], -up[1] >>

\* variant of angleDeg without Math.abs around the cross product
angleDeg_signed(a, b, c) ==
    LET v1x == a.x - b.x
        v1y == a.y - b.y
        v2x == c.x - b.x
        v2y == c.y - b.y
        dot == v1x * v2x + v1y * v2y
        cross == v1x * v2y - v1y * v2x
    IN  atan2(cross, dot)

\* angleDeg(a, b, c): the angle at b
angleDeg(a, b, c) ==
    LET v1x == a.x - b.x
        v1y == a.y - b.y
        v2x == c.x - b.x
        v2y == c.y - b.y
        dot == v1x * v2x + v1y * v2y
        cross == v1x * v2y - v1y * v2x
    IN  atan2(Abs(cross), dot)

angleFromHorizontal(a, b) ==
    LET dx == b.x - a.x
        dy == b.y - a.y
    IN  atan2(Abs(dy), Abs(dx))

\* variant of getLandmarks that also turns away a visibility equal to the threshold
getLandmarks_atThreshold(allLandmarks, side, aspectRatio) ==
    LET indices == SIDE_LANDMARKS[side]
        unusable(name) ==
            IF indices[name] \notin DOMAIN allLandmarks THEN TRUE
            ELSE /\ allLandmarks[indices[name]].visibility # Undefined
                 /\ allLandmarks[indices[name]].visibility <= VISIBILITY_THRESHOLD
    IN  IF \E name \in LandmarkNames : unusable(name) THEN <<>>
        ELSE << [ name \in LandmarkNames |->
                    [ x |-> allLandmarks[indices[name]].x * aspectRatio[1],
                      y |-> allLandmarks[indices[name]].y * aspectRatio[2] ] ] >>

\* getLandmarks(allLandmarks, side, aspectRatio): <<>> for null, else <<the
\* named landmarks>>.  The aspect ratio is <<width, height>>; x * width /
\* height and y are both kept multiplied by height, which changes no angle.
getLandmarks(allLandmarks, side, aspectRatio) ==
    LET indices == SIDE_LANDMARKS[side]
        unusable(name) ==
            IF indices[name] \notin DOMAIN allLandmarks THEN TRUE
            ELSE /\ allLandmarks[indices[name]].visibility # Undefined
                 /\ allLandmarks[indices[name]].visibility < VISIBILITY_THRESHOLD
    IN  IF \E name \in LandmarkNames : unusable(name) THEN <<>>
        ELSE << [ name \in LandmarkNames |->
                    [ x |-> allLandmarks[indices[name]].x * aspectRatio[1],
                      y |-> allLandmarks[indices[name]].y * aspectRatio[2] ] ] >>

\* computeAngles(allLandmarks, side, aspectRatio): <<>> for null, else <<angles>>
computeAngles(allLandmarks, side, aspectRatio) ==
    LET lm == getLandmarks(allLandmarks, side, aspectRatio)
    IN  IF lm = <<>> THEN <<>>
        ELSE << [ knee  |-> angleDeg(lm[1]["hip"], lm[1]["knee"], lm[1]["ankle"]),
                  hip   |-> angleDeg(lm[1]["shoulder"], lm[1]["hip"], lm[1]["knee"]),
                  torso |-> angleFromHorizontal(lm[1]["hip"], lm[1]["shoulder"]),
                  elbow |-> angleDeg(lm[1]["shoulder"], lm[1]["elbow"], lm[1]["wrist"]) ] >>

\* getKneeLandmark(allLandmarks, side): <<>> for null, else <<[x, y]>>
getKneeLandmark(allLandmarks, side) ==
    LET idx == SIDE_LANDMARKS[side]["knee"]
    IN  IF idx \notin DOMAIN allLandmarks THEN <<>>
        ELSE IF /\ allLandmarks[idx].visibility # Undefined
                /\ allLandmarks[idx].visibility < VISIBILITY_THRESHOLD THEN <<>>
        ELSE << [ x |-> allLandmarks[idx].x, y |-> allLandmarks[idx].y ] >>

\* ---------------- SpecGeometry: the two angle functions on a grid of points
GridMax == 3

GridPoints ==
    { [ x |-> i, y |-> j, visibility |-> Undefined ] : i \in 0..GridMax, j \in 0..GridMax }

\* angleDeg on the three points, in both orders
AngleDegCall ==
    /\ lastOp = "new"
    /\ lastResult' = [ abc |-> angleDeg(landmarks[1], landmarks[2], landmarks[3]),
                       cba |-> angleDeg(landmarks[3], landmarks[2], landmarks[1]) ]
    /\ lastOp' = "angleDeg"
    /\ UNCHANGED << detVars, envVars, history, cycleData, appVars >>

\* angleFromHorizontal on the first two points, in both orders
AngleFromHorizontalCall ==
    /\ lastOp = "new"
    /\ lastResult' = [ ab |-> angleFromHorizontal(landmarks[1], landmarks[2]),
                       ba |-> angleFromHorizontal(landmarks[2], landmarks[1]) ]
    /\ lastOp' = "angleFromHorizontal"
    /\ UNCHANGED << detVars, envVars, history, cycleData, appVars >>

InitGeometry ==
    /\ InitDetector
    /\ clock = 0
    /\ wave = Tri600x100
    /\ pos = 1
    /\ strokes = 0
    /\ anglesOn = FALSE
    /\ fed = 0
    /\ history = <<>>
    /\ lastOp = "new"
    /\ lastResult = <<>>
    /\ cycleData = <<>>
    /\ landmarks \in [ 1..3 -> GridPoints ]
    /\ currentState = "DETECTING"
    /\ cameraSide = "null"
    /\ sideVotes = [ left |-> 0, right |-> 0 ]
    /\ pedalingStopped = FALSE
    /\ TARGET_RANGES = DEFAULT_RANGES
    /\ localStorage = <<>>

NextGeometry ==
    \/ AngleDegCall
    \/ AngleFromHorizontalCall

SpecGeometry == InitGeometry /\ [][NextGeometry]_vars

\* the cross product of B->A and B->C for the three points of the state
CrossABC ==
    (landmarks[1].x - landmarks[2].x) * (landmarks[3].y - landmarks[2].y)
      - (landmarks[1].y - landmarks[2].y) * (landmarks[3].x - landmarks[2].x)

\* C22: for all points A, B, C, angleDeg(A, B, C) = angleDeg(C, B, A) and
\* the value lies in [0, 180] degrees; angleFromHorizontal(A, B) lies in
\* [0, 90] degrees and equals angleFromHorizontal(B, A).
C22_AnglesSymmetricAndBounded ==
    /\ lastOp = "angleDeg"
        => /\ lastResult.abc = lastResult.cba
           /\ DegreesBetween(lastResult.abc)[1] >= 0
           /\ DegreesBetween(lastResult.abc)[2] <= 180
    /\ lastOp = "angleFromHorizontal"
        => /\ lastResult.ab = lastResult.ba
           /\ DegreesBetween(lastResult.ab)[1] >= 0
           /\ DegreesBetween(lastResult.ab)[2] <= 90

\* A, B, C turn clockwise (negative cross product) with an obtuse angle at
\* B that is no multiple of 45 degrees
C22_Witness ==
    /\ lastOp = "angleDeg"
    /\ CrossABC < 0
    /\ DegreesBetween(lastResult.abc) = << 135, 180 >>

\* ------------- SpecAngles: computeAngles on frames with degraded landmarks
MaxDegraded == 2

\* computeAngles' default aspectRatio = 16 / 9
AspectRatio == << 16, 9 >>

LandmarkIndices == { 11, 12, 13, 14, 15, 16, 23, 24, 25, 26, 27, 28 }

\* a rider seen from the side, in units of 1/8 of the frame; the far side
\* is drawn one unit to the right of the near side
RiderAt ==
    [ shoulder |-> << 5, 2 >>, elbow |-> << 6, 4 >>, wrist |-> << 7, 3 >>,
      hip |-> << 2, 3 >>, knee |-> << 4, 5 >>, ankle |-> << 3, 7 >> ]

NameOf(idx) ==
    CHOOSE name \in LandmarkNames :
        idx \in { SIDE_LANDMARKS["left"][name], SIDE_LANDMARKS["right"][name] }

SideOf(idx) ==
    IF idx \in { SIDE_LANDMARKS["left"][name] : name \in LandmarkNames }
    THEN "left" ELSE "right"

\* the frame in which the landmarks of `gone` are missing and those of
\* DOMAIN vis carry the visibility given there; the others are well visible
Pose(gone, vis) ==
    [ idx \in LandmarkIndices \ gone |->
        [ x |-> RiderAt[NameOf(idx)][1] + (IF SideOf(idx) = "left" THEN 0 ELSE 1),
          y |-> RiderAt[NameOf(idx)][2],
          visibility |-> IF idx \in DOMAIN vis THEN vis[idx] ELSE 90 ] ]

Visibilities == { Undefined, 59, 60 }

UpTo(n) == { S \in SUBSET LandmarkIndices : Cardinality(S) <= n }

Poses ==
    UNION { UNION { { Pose(gone, vis) : vis \in [ dim -> Visibilities ] }
                    : dim \in { D \in UpTo(MaxDegraded) :
                                  D \cap gone = {} /\
                                  Cardinality(D) + Cardinality(gone) <= MaxDegraded } }
            : gone \in UpTo(MaxDegraded) }

ComputeAnglesCall ==
    /\ lastOp = "new"
    /\ \E side \in { "left", "right" } :
           lastResult' = [ side |-> side,
                           angles |-> computeAngles(landmarks, side, AspectRatio) ]
    /\ lastOp' = "computeAngles"
    /\ UNCHANGED << detVars, envVars, history, cycleData, appVars >>

InitAngles ==
    /\ InitDetector
    /\ clock = 0
    /\ wave = Tri600x100
    /\ pos = 1
    /\ strokes = 0
    /\ anglesOn = FALSE
    /\ fed = 0
    /\ history = <<>>
    /\ lastOp = "new"
    /\ lastResult = <<>>
    /\ cycleData = <<>>
    /\ landmarks \in Poses
    /\ currentState = "DETECTING"
    /\ cameraSide = "null"
    /\ sideVotes = [ left |-> 0, right |-> 0 ]
    /\ pedalingStopped = FALSE
    /\ TARGET_RANGES = DEFAULT_RANGES
    /\ localStorage = <<>>

NextAngles == ComputeAnglesCall

SpecAngles == InitAngles /\ [][NextAngles]_vars

\* the landmarks of a side that are absent or carry a visibility below 0.6
Unusable(side) ==
    { name \in LandmarkNames :
        \/ SIDE_LANDMARKS[side][name] \notin DOMAIN landmarks
        \/ /\ SIDE_LANDMARKS[side][name] \in DOMAIN landmarks
           /\ landmarks[SIDE_LANDMARKS[side][name]].visibility # Undefined
           /\ landmarks[SIDE_LANDMARKS[side][name]].visibility < 60 }

\* C21: computeAngles returns null iff at least one of the six landmarks of
\* the chosen side (shoulder, elbow, wrist, hip, knee, ankle) is absent or
\* carries a visibility below 0.6; otherwise it returns the four angles
\* knee, hip, torso and elbow, each an angle within [0, 180] degrees; it
\* never returns some of the angles without the others.
C21_AnglesAllOrNothing ==
    lastOp = "computeAngles"
        => /\ lastResult.angles = <<>> <=> Unusable(lastResult.side) # {}
           /\ lastResult.angles # <<>>
                => /\ Len(lastResult.angles) = 1
                   /\ DOMAIN lastResult.angles[1] = { "knee", "hip", "torso", "elbow" }
                   /\ \A key \in DOMAIN lastResult.angles[1] :
                          /\ DegreesBetween(lastResult.angles[1][key])[1] >= 0
                          /\ DegreesBetween(lastResult.angles[1][key])[2] <= 180

\* angles were returned for a side one of whose landmarks has visibility
\* exactly 0.6 and another has no visibility field
C21_Witness ==
    /\ lastOp = "computeAngles"
    /\ lastResult.angles # <<>>
    /\ \E i, j \in DOMAIN landmarks :
           /\ SideOf(i) = lastResult.side
           /\ SideOf(j) = lastResult.side
           /\ landmarks[i].visibility = 60
           /\ landmarks[j].visibility = Undefined

\* ------------------------------------------- target ranges and settings
\* A range bound is a JavaScript number: an integer, or NaN (what parseInt
\* gives for a text without a leading number), or null (what NaN becomes in
\* JSON).  Texts are sequences of one-character strings.
NaN == -1000000

Null == -1000001

DigitChars == << "0", "1", "2", "3", "4", "5", "6", "7", "8", "9" >>

IsDigit(ch) == \E i \in 1..10 : DigitChars[i] = ch

DigitValue(ch) == (CHOOSE i \in 1..10 : DigitChars[i] = ch) - 1

\* the value of the longest prefix of digits of a text, and its length
RECURSIVE DigitsPrefix(_, _, _)
DigitsPrefix(text, value, count) ==
    IF Len(text) > 0 /\ IsDigit(text[1])
    THEN DigitsPrefix(Tail(text), 10 * value + DigitValue(text[1]), count + 1)
    ELSE << value, count >>

\* parseInt(text, 10): an optional sign, then digits up to the first other
\* character; NaN when there is no digit
parseInt(text) ==
    LET signed == Len(text) > 0 /\ text[1] \in { "-", "+" }
        rest == IF signed THEN Tail(text) ELSE text
        parsed == DigitsPrefix(rest, 0, 0)
    IN  IF parsed[2] = 0 THEN NaN
        ELSE IF signed /\ text[1] = "-" THEN -parsed[1] ELSE parsed[1]

\* the text an input shows for a number assigned to its value
RECURSIVE DigitsOf(_)
DigitsOf(n) ==
    IF n < 10 THEN << DigitChars[n + 1] >>
    ELSE Append(DigitsOf(n \div 10), DigitChars[(n % 10) + 1])

ToText(v) ==
    IF v = NaN THEN << "N", "a", "N" >>
    ELSE IF v = Null THEN <<>>
    ELSE IF v < 0 THEN << "-" >> \o DigitsOf(-v) ELSE DigitsOf(v)

ChannelSet == { Channels[i] : i \in 1..Len(Channels) }

\* populateSettingsInputs(ranges): the texts of the eight fields
populateSettingsInputs(ranges) ==
    [ key \in ChannelSet |-> << ToText(ranges[key][1]), ToText(ranges[key][2]) >> ]

\* readSettingsInputs()
readSettingsInputs(inputs) ==
    [ key \in ChannelSet |-> << parseInt(inputs[key][1]), parseInt(inputs[key][2]) >> ]

\* JSON.parse(JSON.stringify(ranges)): NaN is written as null
ThroughJson(ranges) ==
    [ key \in ChannelSet |->
        << IF ranges[key][1] = NaN THEN Null ELSE ranges[key][1],
           IF ranges[key][2] = NaN THEN Null ELSE ranges[key][2] >> ]

\* saveRanges(ranges): the new content of the store
saveRanges(ranges) == << ThroughJson(ranges) >>

\* loadRanges(): <<>> for null
loadRanges(store) == store

\* applyRanges(ranges): the new TARGET_RANGES
applyRanges(ranges) == [ key \in ChannelSet |-> ranges[key] ]

\* what a user may type into the two fields of a channel
MaxTyped == 2

TypedPairs ==
    { << << "1", "2", "0" >>, << "1", "5", "0" >> >>,
      << << "1", "5", "0" >>, << "1", "4", "0" >> >>,
      << <<>>, << "1", "5", "0" >> >>,
      << << "-", "5" >>, << "1", "2", "p", "x" >> >> }

\* the contents of the fields when Save is clicked: those the modal was
\* opened with (openSettings populates them from TARGET_RANGES), typed over
\* in at most MaxTyped channels
FieldContents ==
    UNION { { [ key \in ChannelSet |->
                  IF key \in typed THEN pairs[key]
                  ELSE populateSettingsInputs(TARGET_RANGES)[key] ]
              : pairs \in [ typed -> TypedPairs ] }
            : typed \in { T \in SUBSET ChannelSet : Cardinality(T) <= MaxTyped } }

\* the settingsSave click handler
SettingsSave ==
    /\ \E inputs \in FieldContents :
           LET ranges == readSettingsInputs(inputs)
           IN  /\ localStorage' = saveRanges(ranges)
               /\ TARGET_RANGES' = applyRanges(ranges)
    /\ lastOp' = "settingsSave"
    /\ UNCHANGED << detVars, envVars, history, lastResult, cycleData,
                    landmarks, sessionVars >>

\* the page is loaded again: init() applies the stored ranges or the defaults
AppStart ==
    /\ lastOp # "init"
    /\ TARGET_RANGES' = applyRanges(IF loadRanges(localStorage) = <<>>
                                    THEN DEFAULT_RANGES
                                    ELSE loadRanges(localStorage)[1])
    /\ lastOp' = "init"
    /\ UNCHANGED << detVars, envVars, history, lastResult, cycleData,
                    landmarks, sessionVars, localStorage >>

NextSettings ==
    \/ SettingsSave
    \/ AppStart

SpecSettings == InitSession /\ [][NextSettings]_vars

\* min and max are numbers and min < max
WellFormed(range) ==
    /\ range[1] \notin { NaN, Null }
    /\ range[2] \notin { NaN, Null }
    /\ range[1] < range[2]

\* C23: in every reachable state of the app, the active target range of
\* each channel satisfies min < max, also after a settings save with
\* arbitrary values entered and after the stored ranges were loaded at
\* start-up.
C23_RangesWellFormed ==
    \A key \in ChannelSet : WellFormed(TARGET_RANGES[key])

\* as long as nothing has been saved, the active ranges are the defaults
C23_DefaultsUntilSaved ==
    localStorage = <<>> => TARGET_RANGES = DEFAULT_RANGES /\ C23_RangesWellFormed

\* ------------------------------------------------- the session (app.js)
\* detectVisibleSide(landmarks) of pose.js: a missing landmark or visibility
\* counts 0
detectVisibleSide(lms) ==
    LET vis(i) == IF i \notin DOMAIN lms THEN 0
                  ELSE IF lms[i].visibility = Undefined THEN 0
                  ELSE lms[i].visibility
        leftIndices == << 11, 13, 15, 23, 25, 27 >>
        rightIndices == << 12, 14, 16, 24, 26, 28 >>
        leftVis == SumSeq([k \in 1..6 |-> vis(leftIndices[k])])
        rightVis == SumSeq([k \in 1..6 |-> vis(rightIndices[k])])
    IN  IF leftVis > rightVis THEN "left" ELSE "right"

\* variant of sideFromVotes that gives a tie to the right
sideFromVotes_strict(votes) ==
    IF votes.left > votes.right THEN "left" ELSE "right"

\* transitionToRecording: the side locked in from the accumulated votes
sideFromVotes(votes) ==
    IF votes.left >= votes.right THEN "left" ELSE "right"

\* the summaries the listener was called with during a call that took the
\* detector to d
DeliveredBy(d) ==
    [ k \in 1..(Len(d.emitted) - Len(emitted)) |-> d.emitted[Len(emitted) + k].summary ]

\* bounds of the session model
MaxSessionSamples == 52
MaxSessionTime == 6400
MaxSessions == 2
IdleFrames == 1

\* the rider at rest
Still == [ dt |-> 100, pat |-> << 40, 40, 40, 40, 40, 40 >> ]

\* the landmark array of a frame: the rider with the `near` side towards
\* the camera (visibility 0.9, the far side 0.3) and the knees at height y
FramePose(near, y) ==
    [ idx \in LandmarkIndices |->
        [ x |-> 8 * RiderAt[NameOf(idx)][1],
          y |-> IF NameOf(idx) = "knee" THEN y ELSE 8 * RiderAt[NameOf(idx)][2],
          visibility |-> IF SideOf(idx) = near THEN 90 ELSE 30 ] ]

\* the side a frame shows
NearOf(lms) == detectVisibleSide(lms)

\* stopSession() at time t with the session's list cd
StopSession(cd, t) ==
    /\ currentState' = "COMPLETE"
    /\ cycleData' = finalizeAnalysis(cd).cycleData
    /\ lastResult' = [ at |-> t, input |-> cd,
                       statusText |-> finalizeAnalysis(cd).statusText,
                       rendered |-> finalizeAnalysis(cd).rendered ]

\* what is common to every frame: the time passes and the signal moves on
FramePasses(lms, next) ==
    /\ landmarks' = lms
    /\ clock' = clock + wave.dt
    /\ IF pos < Len(wave.pat)
       THEN pos' = pos + 1 /\ UNCHANGED << wave, strokes >>
       ELSE pos' = 1 /\ wave' = next /\ strokes' = strokes + 1
    /\ lastOp' = "onFrame"
    /\ UNCHANGED << anglesOn, rangeVars >>

\* variant of OnFrameDetecting that starts recording at the first accepted cycle
OnFrameDetecting_onFirstCycle(lms, timestamp) ==
    LET side == detectVisibleSide(lms)
        votes == [ sideVotes EXCEPT ![side] = @ + 1 ]
        knee == getKneeLandmark(lms, side)
        d == IF knee = <<>> THEN Det ELSE addSample(Det, timestamp, knee[1].y, <<>>)
    IN  /\ sideVotes' = votes
        /\ Becomes(d)
        /\ IF knee = <<>> THEN UNCHANGED << fed, history >>
           ELSE /\ fed' = fed + 1
                /\ history' = Append(history, [ t |-> timestamp, y |-> knee[1].y,
                                                angles |-> <<>> ])
        /\ IF knee # <<>> /\ d.cycleCount > 0
           THEN cameraSide' = sideFromVotes(votes) /\ currentState' = "RECORDING"
           ELSE UNCHANGED << cameraSide, currentState >>
        /\ UNCHANGED << cycleData, pedalingStopped, lastResult >>

\* onFrame(landmarks, timestamp) while DETECTING
OnFrameDetecting(lms, timestamp) ==
    LET side == detectVisibleSide(lms)
        votes == [ sideVotes EXCEPT ![side] = @ + 1 ]
        knee == getKneeLandmark(lms, side)
        d == IF knee = <<>> THEN Det ELSE addSample(Det, timestamp, knee[1].y, <<>>)
    IN  /\ sideVotes' = votes
        /\ Becomes(d)
        /\ IF knee = <<>> THEN UNCHANGED << fed, history >>
           ELSE /\ fed' = fed + 1
                /\ history' = Append(history, [ t |-> timestamp, y |-> knee[1].y,
                                                angles |-> <<>> ])
        /\ IF knee # <<>> /\ d.isSteady
           THEN cameraSide' = sideFromVotes(votes) /\ currentState' = "RECORDING"
           ELSE UNCHANGED << cameraSide, currentState >>
        /\ UNCHANGED << cycleData, pedalingStopped, lastResult >>

\* onFrame(landmarks, timestamp) while RECORDING; the angle set handed to
\* the detector has the values of AnglesAt whenever computeAngles has a result
OnFrameRecording(lms, timestamp) ==
    LET angles == IF computeAngles(lms, cameraSide, AspectRatio) = <<>> THEN <<>>
                  ELSE << AnglesAt(lms[SIDE_LANDMARKS[cameraSide]["knee"]].y, fed) >>
        knee == getKneeLandmark(lms, cameraSide)
        feeds == knee # <<>> /\ ~pedalingStopped
        d == IF feeds THEN addSample(Det, timestamp, knee[1].y, angles) ELSE Det
        pushed == cycleData \o DeliveredBy(d)
    IN  /\ Becomes(d)
        /\ IF feeds
           THEN /\ fed' = fed + 1
                /\ history' = Append(history, [ t |-> timestamp, y |-> knee[1].y,
                                                angles |-> angles ])
           ELSE UNCHANGED << fed, history >>
        /\ IF feeds /\ hasStopped(d, timestamp)
           THEN pedalingStopped' = TRUE /\ StopSession(pushed, timestamp)
           ELSE /\ cycleData' = pushed
                /\ UNCHANGED << pedalingStopped, currentState, lastResult >>
        /\ UNCHANGED << cameraSide, sideVotes >>

\* the sides the rider may show in the next frame: the rider turns between
\* strokes only, and once the side is locked only while at rest
Turns ==
    IF pos > 1 /\ landmarks # <<>> THEN { NearOf(landmarks) }
    ELSE IF currentState = "RECORDING" /\ wave # Still THEN { cameraSide }
    ELSE { "left", "right" }

\* a frame from the pose source
OnFrame ==
    /\ clock < MaxSessionTime
    /\ Len(history) < MaxSessionSamples
    /\ currentState = "COMPLETE" => clock < lastResult.at + IdleFrames * wave.dt
    /\ \E near \in Turns,
          next \in (IF currentState = "RECORDING" THEN { Tri600x100, Still }
                    ELSE { Tri600x100 }) :
           LET lms == FramePose(near, wave.pat[pos])
           IN  /\ FramePasses(lms, next)
               /\ CASE currentState = "DETECTING" -> OnFrameDetecting(lms, clock + wave.dt)
                    [] currentState = "RECORDING" -> OnFrameRecording(lms, clock + wave.dt)
                    [] OTHER -> UNCHANGED << detVars, fed, history, cycleData,
                                             sessionVars, lastResult >>

\* the stop button, shown while RECORDING
StopButton ==
    /\ currentState = "RECORDING"
    /\ pos = 1
    /\ StopSession(cycleData, clock)
    /\ lastOp' = "stopBtn"
    /\ UNCHANGED << detVars, envVars, history, landmarks, cameraSide, sideVotes,
                    pedalingStopped, rangeVars >>

\* variant of BeginDetecting that keeps the cycles of the session before
BeginDetecting_keepsCycleData ==
    /\ currentState' = "DETECTING"
    /\ cameraSide' = "null"
    /\ sideVotes' = [ left |-> 0, right |-> 0 ]
    /\ cycleData' = cycleData
    /\ Becomes(onCycle(reset(Det)))
    /\ pedalingStopped' = FALSE
    /\ history' = <<>>

\* variant of BeginDetecting that keeps the side votes
BeginDetecting_keepsVotes ==
    /\ currentState' = "DETECTING"
    /\ cameraSide' = "null"
    /\ sideVotes' = sideVotes
    /\ cycleData' = <<>>
    /\ Becomes(onCycle(reset(Det)))
    /\ pedalingStopped' = FALSE
    /\ history' = <<>>

\* beginDetecting(), at start-up and from resetSession()
BeginDetecting ==
    /\ currentState' = "DETECTING"
    /\ cameraSide' = "null"
    /\ sideVotes' = [ left |-> 0, right |-> 0 ]
    /\ cycleData' = <<>>
    /\ Becomes(onCycle(reset(Det)))
    /\ pedalingStopped' = FALSE
    /\ history' = <<>>

\* the reset button, shown once the session is COMPLETE
ResetButton ==
    /\ currentState = "COMPLETE"
    /\ epoch < MaxSessions - 1
    /\ BeginDetecting
    /\ lastOp' = "resetBtn"
    /\ lastResult' = <<>>
    /\ UNCHANGED << envVars, landmarks, rangeVars >>

\* the app after init(): beginDetecting() has run
InitSessionApp ==
    /\ samples = <<>>
    /\ peaks = <<>>
    /\ troughs = <<>>
    /\ isSteady = FALSE
    /\ lastCycleTime = 0
    /\ cycleCount = 0
    /\ onCycleCallback = TRUE
    /\ currentCycleAngles = <<>>
    /\ emitted = <<>>
    /\ epoch = 0
    /\ clock = 0
    /\ wave = Tri600x100
    /\ pos \in { 1, 2 }
    /\ strokes = 0
    /\ anglesOn = TRUE
    /\ fed = 0
    /\ history = <<>>
    /\ lastOp = "init"
    /\ lastResult = <<>>
    /\ cycleData = <<>>
    /\ InitApp

NextSessionApp ==
    \/ OnFrame
    \/ StopButton
    \/ ResetButton

SpecSession == InitSessionApp /\ [][NextSessionApp]_vars

\* left if the left votes are at least the right votes, otherwise right
MajoritySide(votes) == IF votes.left < votes.right THEN "right" ELSE "left"

\* C24: cameraSide is assigned only at the transition from DETECTING to
\* RECORDING, from the votes accumulated up to and including that frame
\* (left if left votes >= right votes, otherwise right); it keeps that
\* value while the app is RECORDING or COMPLETE, and changes again only
\* when a new session is begun, which clears it.
C24_SideLockedAtTransition ==
    [][ /\ (currentState = "DETECTING" /\ currentState' = "RECORDING")
            => cameraSide' = MajoritySide(sideVotes')
        /\ cameraSide' # cameraSide
            => \/ currentState = "DETECTING" /\ currentState' = "RECORDING"
               \/ /\ lastOp' = "resetBtn"
                  /\ currentState' = "DETECTING"
                  /\ cameraSide' = "null"
        /\ (currentState \in { "RECORDING", "COMPLETE" } /\ lastOp' # "resetBtn")
            => /\ cameraSide' = cameraSide
               /\ cameraSide' = MajoritySide(sideVotes')
        /\ currentState' = "DETECTING" <=> cameraSide' = "null" ]_vars

\* the side has just been locked to the left on a tie of the votes, by a
\* frame that itself showed the right side
C24_Witness ==
    /\ lastOp = "onFrame"
    /\ currentState = "RECORDING"
    /\ isSteady
    /\ sideVotes.left = sideVotes.right
    /\ sideVotes.left > 0
    /\ cameraSide = "left"
    /\ NearOf(landmarks) = "right"
    /\ cycleData = <<>>

\* ------------- SpecCoast: strokes in band and just out of it, a stretch
\* without samples, hasStopped queries and a reset in mid-ride; listener
\* set, angles on
MaxCoastSamples == 42

\* 480 ms strokes sampled every 80 ms: 125 RPM, just above the band
Tri480x80 == Tri(80, 3, 16, 8)

CoastStrokes == { Tri600x100, Tri480x80 }

CoastFrame ==
    /\ onCycleCallback
    /\ fed < MaxCoastSamples
    /\ \E next \in (IF pos < Len(wave.pat) THEN { wave } ELSE CoastStrokes) : Frame(next)

\* onFrame without a knee landmark, once, right after a sample
CoastPause ==
    /\ onCycleCallback
    /\ pos = 1
    /\ history # <<>>
    /\ clock = Last(history).t
    /\ PausesTaken < MaxPauses
    /\ \E gap \in PauseLengths : clock' = clock + gap
    /\ lastOp' = "pause"
    /\ lastResult' = <<>>
    /\ UNCHANGED << detVars, wave, pos, strokes, anglesOn, fed, history, cycleData, appVars >>

\* reset() between two strokes of a ride that has had a cycle accepted
CoastReset ==
    /\ epoch < MaxResets
    /\ pos = 1
    /\ cycleCount > 0
    /\ Becomes(reset(Det))
    /\ history' = <<>>
    /\ lastOp' = "reset"
    /\ lastResult' = <<>>
    /\ UNCHANGED << envVars, cycleData, appVars >>

InitCoast ==
    /\ InitDetector
    /\ clock = 0
    /\ wave = Tri600x100
    /\ pos = 1
    /\ strokes = 0
    /\ anglesOn = TRUE
    /\ fed = 0
    /\ history = <<>>
    /\ lastOp = "new"
    /\ lastResult = <<>>
    /\ cycleData = <<>>
    /\ InitApp

NextCoast ==
    \/ CoastFrame
    \/ CoastPause
    \/ CoastReset
    \/ HasStoppedCall
    \/ OnCycleCall

SpecCoast == InitCoast /\ [][NextCoast]_vars

\* the newest periods of a peak history, three at most
RecentPeriods(ps) ==
    { ps[i] - ps[i - 1] : i \in Max2(2, Len(ps) - MIN_CYCLES_FOR_STEADY + 1)..Len(ps) }

\* C37: whenever isSteady is true, at least 3 cycles have been accepted since
\* the last reset and each of the three most recent peak-to-peak periods
\* gives a cadence in [40, 120] RPM.
C37_SteadyMeansThreeCyclesInBand ==
    isSteady => /\ cycleCount >= MIN_CYCLES_FOR_STEADY
                /\ \A period \in RecentPeriods(peaks) : InBand(period)

\* C38: isSteady changes value only inside an addSample call that accepts a
\* cycle, or in reset(); calls that add no peak, calls whose peak is rejected,
\* hasStopped calls and the eviction of old peaks leave it unchanged.
C38_SteadyChangesOnlyOnAcceptedCycleOrReset ==
    [][ /\ isSteady' # isSteady => (AcceptedNow \/ lastOp' = "reset")
        /\ (lastOp' = "addSample" /\ ~NewPeakNow) => isSteady' = isSteady
        /\ (NewPeakNow /\ cycleCount' = cycleCount) => isSteady' = isSteady
        /\ lastOp' \in { "hasStopped", "pause", "onCycle" } => isSteady' = isSteady
        /\ (lastOp' = "addSample" /\ Len(peaks') < Len(peaks)) => isSteady' = isSteady ]_vars

\* isSteady is still true although pedalling has stopped and the call that
\* just ran has evicted all but one peak of the history
C38_Witness ==
    /\ lastOp = "addSample"
    /\ isSteady
    /\ hasStopped(Det, clock)
    /\ Len(peaks) < MIN_CYCLES_FOR_STEADY + 1
    /\ cycleCount >= 1

\* the first peak recorded when the calls of h are made on detector d, 0 if none
RECURSIVE FirstPeak(_, _)
FirstPeak(d, h) ==
    IF h = <<>> THEN 0
    ELSE LET d1 == addSample(d, h[1].t, h[1].y, h[1].angles)
         IN  IF d1.peaks # <<>> THEN d1.peaks[1] ELSE FirstPeak(d1, Tail(h))

\* the peak an accepted cycle's period is measured from: the newest peak
\* before the call
PeriodStart == Last(peaks)

\* C40: the period of every accepted cycle is measured from a peak that
\* itself ended an accepted cycle or is the first peak after the reset; a
\* peak whose own period was rejected is not the start of the next period.
C40_PeriodsBetweenAcceptedPeaks ==
    [][ AcceptedNow => \/ PeriodStart = lastCycleTime
                       \/ PeriodStart = FirstPeak(NewCadenceDetector(TRUE), history) ]_vars

\* C35: for every non-empty list ordered by non-decreasing timestamp,
\* trimCycles returns a non-empty prefix of the list, which therefore holds
\* the first cycle; finalizeAnalysis on such a list never reports "No valid
\* pedal cycles after filtering".
C35_TrimKeepsTheFirstCycle ==
    (lastOp = "trimCycles" /\ lastResult.input # <<>>) =>
        LET L == lastResult.input
            T == lastResult.output
        IN  /\ T # <<>>
            /\ Len(T) <= Len(L)
            /\ T = SubSeq(L, 1, Len(T))
            /\ T[1] = L[1]
            /\ finalizeAnalysis(L).cycleData = T
            /\ finalizeAnalysis(L).statusText = "Analysis complete"

\* a session of three cycles, the second and third within 5000 ms of the
\* end, is cut down to its first cycle
C35_Witness ==
    /\ lastOp = "trimCycles"
    /\ Len(lastResult.input) = 3
    /\ Span(lastResult.input) > TRIM_END_MS
    /\ lastResult.input[2].timestamp > lastResult.input[3].timestamp - TRIM_END_MS
    /\ lastResult.output = << lastResult.input[1] >>

\* ----------- SpecBorderline: sessions whose means lie next to the limits
MaxBorderline == 2

\* frames averaged in a cycle's torso and elbow values
BorderFrames == 25

\* a cycle whose torso average lies k / 25 of a degree above the upper torso
\* target (lev = 0) or above the red limit 10 degrees further (lev = 1), and
\* whose elbow average lies as far below the lower elbow limits
BorderKinds == { [ lev |-> l, k |-> k ] : l \in { 0, 1 }, k \in { -2, -1, 0, 1, 2 } }

BorderSummary(n, kind) ==
    [ cycleNumber |-> n, timestamp |-> 3000 * n, rpm |-> 90,
      kneeMax |-> 140, hipMin |-> 70,
      torsoAvg |-> << BorderFrames * (THRESHOLDS.torso.max + RED_DIFF * kind.lev) + kind.k,
                      BorderFrames >>,
      elbowAvg |-> << BorderFrames * (THRESHOLDS.elbow.min - RED_DIFF * kind.lev) - kind.k,
                      BorderFrames >> ]

BorderPush ==
    /\ Len(cycleData) < MaxBorderline
    /\ \E kind \in BorderKinds : Push(BorderSummary(Len(cycleData) + 1, kind))

NextBorderline ==
    \/ BorderPush
    \/ AnalyzeSessionCall

SpecBorderline == InitSession /\ [][NextBorderline]_vars

\* C39 as stated: the status of every result agrees with the reported avg
\* (in tenths) and the target range: green iff targetMin <= avg <= targetMax,
\* red iff avg is more than 10 below targetMin or more than 10 above targetMax.
C39_StatusAgreesWithReportedAvg ==
    (lastOp = "analyzeSession" /\ lastResult.input # <<>>) =>
        \A i \in 1..Len(lastResult.output) :
            LET r == lastResult.output[i]
            IN  /\ (r.status = "green")
                      <=> (10 * r.targetMin <= r.avg /\ r.avg <= 10 * r.targetMax)
                /\ (r.status = "red")
                      <=> \/ r.avg < 10 * (r.targetMin - RED_DIFF)
                          \/ r.avg > 10 * (r.targetMax + RED_DIFF)

\* C39 amended: the status is that of the unrounded mean M, the reported avg
\* A is M to the nearest tenth; so green implies targetMin <= A <= targetMax
\* and red implies A at least 10 outside the range, and the status is the one
\* A suggests whenever A differs from the four limits.  With A on a limit
\* the status is decided by the side of the limit M lies on.
C39_StatusAgreesUnlessAvgOnLimit ==
    (lastOp = "analyzeSession" /\ lastResult.input # <<>>) =>
        \A i \in 1..Len(lastResult.output) :
            LET r == lastResult.output[i]
                den == Len(lastResult.input) * ChannelDen(lastResult.input, i)
                num == SumSeq(ChannelNums(lastResult.input, i))   \* M = num / den
                lo == 10 * r.targetMin
                hi == 10 * r.targetMax
                far == 10 * RED_DIFF
                limits == { lo - far, lo, hi, hi + far }
            IN  /\ 2 * Abs(10 * num - r.avg * den) <= den
                /\ (r.status = "green")
                      <=> (r.targetMin * den <= num /\ num <= r.targetMax * den)
                /\ (r.status = "red")
                      <=> \/ num < (r.targetMin - RED_DIFF) * den
                          \/ num > (r.targetMax + RED_DIFF) * den
                /\ r.status = "green" => (lo <= r.avg /\ r.avg <= hi)
                /\ r.status = "red" => (r.avg <= lo - far \/ r.avg >= hi + far)
                /\ r.avg \notin limits =>
                      /\ (r.status = "green") <=> (lo < r.avg /\ r.avg < hi)
                      /\ (r.status = "red") <=> (r.avg < lo - far \/ r.avg > hi + far)

\* one cycle with a torso average of 55.04: reported as 55.0, the upper
\* target, and yellow; and an elbow average of 144.96: reported as 145.0, the
\* lower target, and yellow
C39_Witness ==
    /\ lastOp = "analyzeSession"
    /\ Len(lastResult.input) = 1
    /\ lastResult.input[1].torsoAvg = << 1376, 25 >>
    /\ lastResult.output[3].avg = 10 * lastResult.output[3].targetMax
    /\ lastResult.output[3].status = "yellow"
    /\ lastResult.output[4].avg = 10 * lastResult.output[4].targetMin
    /\ lastResult.output[4].status = "yellow"

\* ------- SpecUnseen: a session in which the knee is out of sight at times
\* (before the rider is in position, for a stroke, after stepping off)
MaxUnseen == 6

\* the frame's landmark array with the knee of the near side hard to see
\* (visibility 0.3)
KneeHidden(lms) ==
    [ lms EXCEPT ![SIDE_LANDMARKS[NearOf(lms)]["knee"]].visibility = 30 ]

\* whether the near knee passes getKneeLandmark
KneeSeen(lms) == getKneeLandmark(lms, NearOf(lms)) # <<>>

\* frames of this detection phase that had no visible knee: every frame
\* casts a vote, every frame with a knee feeds a sample
UnseenSoFar == sideVotes.left + sideVotes.right - Len(history)

\* whether the knee may be in sight in the next frame: it comes and goes
\* between strokes only; while DETECTING it is out of sight for MaxUnseen
\* frames at most, while RECORDING only when the rider is at rest
Sights ==
    IF pos > 1 /\ landmarks # <<>> THEN { KneeSeen(landmarks) }
    ELSE IF currentState = "DETECTING"
         THEN (IF UnseenSoFar < MaxUnseen THEN BOOLEAN ELSE { TRUE })
    ELSE IF currentState = "RECORDING" /\ wave = Still THEN BOOLEAN
    ELSE { TRUE }

\* a frame from the pose source, the rider's left side towards the camera
UnseenFrame ==
    /\ clock < MaxSessionTime
    /\ Len(history) < MaxSessionSamples
    /\ currentState = "COMPLETE" => clock < lastResult.at + IdleFrames * wave.dt
    /\ \E seen \in Sights,
          next \in (IF currentState = "RECORDING" THEN { Tri600x100, Still }
                    ELSE { Tri600x100 }) :
           LET pose == FramePose("left", wave.pat[pos])
               lms == IF seen THEN pose ELSE KneeHidden(pose)
           IN  /\ FramePasses(lms, next)
               /\ CASE currentState = "DETECTING" -> OnFrameDetecting(lms, clock + wave.dt)
                    [] currentState = "RECORDING" -> OnFrameRecording(lms, clock + wave.dt)
                    [] OTHER -> UNCHANGED << detVars, fed, history, cycleData,
                                             sessionVars, lastResult >>

InitUnseen ==
    /\ InitSessionApp
    /\ pos = 1

NextUnseen ==
    \/ UnseenFrame
    \/ StopButton
    \/ ResetButton

SpecUnseen == InitUnseen /\ [][NextUnseen]_vars

\* C33: while the app is RECORDING, the first frame whose timestamp exceeds
\* the time of the last accepted cycle by more than 2000 ms takes the app to
\* COMPLETE, also when the knee landmark is missing from the frames that
\* arrive after pedalling has stopped; so the session ends as long as frames
\* keep arriving.
C33_StopsOnceTimeoutPassed ==
    [][ ( /\ currentState = "RECORDING"
          /\ lastOp' = "onFrame"
          /\ clock' - lastCycleTime' > STOP_TIMEOUT_MS )
            => currentState' = "COMPLETE" ]_vars

\* what holds: such a frame ends the session if the knee of the locked side
\* is in it; a frame without that knee changes nothing but the time, so
\* the app stays RECORDING for as long as the knee stays out of sight
C33_StopsWhenKneeSeen ==
    [][ /\ ( /\ currentState = "RECORDING"
             /\ lastOp' = "onFrame"
             /\ getKneeLandmark(landmarks', cameraSide) # <<>>
             /\ clock' - lastCycleTime' > STOP_TIMEOUT_MS )
               => /\ currentState' = "COMPLETE"
                  /\ pedalingStopped'
                  /\ lastResult'.at = clock'
        /\ ( /\ currentState = "RECORDING"
             /\ lastOp' = "onFrame"
             /\ getKneeLandmark(landmarks', cameraSide) = <<>> )
               => UNCHANGED << detVars, cycleData, sessionVars, fed, history >> ]_vars

\* the rider has been out of sight for twice the timeout and the app is
\* still RECORDING
C33_StillRecording ==
    /\ lastOp = "onFrame"
    /\ currentState = "RECORDING"
    /\ ~KneeSeen(landmarks)
    /\ clock - lastCycleTime >= 2 * STOP_TIMEOUT_MS

\* C31: the app goes from DETECTING to RECORDING only on a frame that carries
\* a visible knee and after whose sample the detector is steady, and it does
\* so on every such frame; no button and no frame without a visible knee
\* starts the recording, DETECTING is left for RECORDING only, and RECORDING
\* is entered from DETECTING only.
C31_RecordingStartsOnSteadyFrame ==
    [][ /\ (currentState # "RECORDING" /\ currentState' = "RECORDING")
            => /\ currentState = "DETECTING"
               /\ lastOp' = "onFrame"
               /\ getKneeLandmark(landmarks', detectVisibleSide(landmarks')) # <<>>
               /\ history' # <<>>
               /\ Last(history').t = clock'
               /\ Last(samples').t = clock'
               /\ isSteady'
        /\ ( /\ currentState = "DETECTING"
             /\ lastOp' = "onFrame"
             /\ getKneeLandmark(landmarks', detectVisibleSide(landmarks')) # <<>>
             /\ isSteady' )
               => currentState' = "RECORDING"
        /\ (currentState = "DETECTING" /\ lastOp' = "onFrame" /\ ~KneeSeen(landmarks'))
               => /\ currentState' = "DETECTING"
                  /\ UNCHANGED detVars
        /\ (currentState = "DETECTING" /\ currentState' # "DETECTING")
               => currentState' = "RECORDING"
        /\ lastOp' \in { "stopBtn", "resetBtn" } => currentState' # "RECORDING" ]_vars

\* the recording has just started, in a session in which the knee was out
\* of sight for a stroke while the app was DETECTING
C31_Witness ==
    /\ lastOp = "onFrame"
    /\ currentState = "RECORDING"
    /\ isSteady
    /\ Last(history).t = clock
    /\ lastCycleTime = clock - lookback * wave.dt
    /\ UnseenSoFar = MaxUnseen
    /\ cycleData = <<>>

\* whether the timestamps of a list of summaries increase strictly
StrictlyIncreasing(cd) ==
    \A i \in 1..(Len(cd) - 1) : cd[i].timestamp < cd[i + 1].timestamp

\* C32: cycleData grows only in a frame that finds the app RECORDING, with
\* the side locked, and then by the summaries the detector delivers in that
\* frame; nothing delivered in DETECTING or COMPLETE is recorded (nothing is
\* delivered there); every entry is a summary delivered since the session
\* began, and the timestamps of cycleData increase strictly.
C32_CycleDataGrowsWhileRecording ==
    [][ /\ Len(cycleData') > Len(cycleData)
            => /\ currentState = "RECORDING"
               /\ cameraSide \in { "left", "right" }
               /\ lastOp' = "onFrame"
               /\ emitted' # emitted
        /\ (currentState = "RECORDING" /\ currentState' = "RECORDING")
            => cycleData' = cycleData \o DeliveredBy(Det')
        /\ currentState # "RECORDING"
            => /\ cycleData' = cycleData \/ (lastOp' = "resetBtn" /\ cycleData' = <<>>)
               /\ emitted' = emitted
        /\ \A i \in 1..Len(cycleData') :
              \E k \in 1..Len(EmittedThisEpoch') : EmittedThisEpoch'[k].summary = cycleData'[i]
        /\ StrictlyIncreasing(cycleData') ]_vars

\* two cycles have been recorded; the cycles accepted while DETECTING are
\* not among them
C32_Witness ==
    /\ lastOp = "onFrame"
    /\ currentState = "RECORDING"
    /\ Len(cycleData) >= 2
    /\ cycleData[1].cycleNumber > 1
    /\ Last(cycleData) = Last(emitted).summary
    /\ Last(cycleData).timestamp = lastCycleTime

\* C34: COMPLETE is left only by a reset; a frame that finds the app COMPLETE
\* changes neither the state, cycleData nor the detector; stopSession runs
\* only in a step from RECORDING to COMPLETE, hence once per session; a reset
\* leads to DETECTING with cycleData empty, the votes zero, no side, and the
\* detector as new with a listener registered, whatever the detector held.
C34_CompleteUntilReset ==
    [][ /\ (currentState = "COMPLETE" /\ currentState' # "COMPLETE")
            => (lastOp' = "resetBtn" /\ currentState' = "DETECTING")
        /\ (currentState = "COMPLETE" /\ lastOp' = "onFrame")
            => UNCHANGED << detVars, cycleData, sessionVars, lastResult, history >>
        /\ (currentState # "COMPLETE" /\ currentState' = "COMPLETE")
            => /\ currentState = "RECORDING"
               /\ lastOp' \in { "onFrame", "stopBtn" }
               /\ lastResult'.at = clock'
        /\ lastResult' # lastResult
            => \/ currentState = "RECORDING" /\ currentState' = "COMPLETE"
               \/ lastOp' = "resetBtn" /\ lastResult' = <<>>
        /\ lastOp' = "resetBtn"
            => /\ currentState' = "DETECTING"
               /\ cycleData' = <<>>
               /\ sideVotes' = [ left |-> 0, right |-> 0 ]
               /\ cameraSide' = "null"
               /\ ~pedalingStopped'
               /\ Fields(Det') = Fields(NewCadenceDetector(TRUE))
               /\ epoch' = epoch + 1
        /\ Fields(onCycle(reset(Det))) = Fields(NewCadenceDetector(TRUE)) ]_vars

\* a session in which cycles were recorded has ended and has been reset
C34_Witness ==
    /\ lastOp = "resetBtn"
    /\ currentState = "DETECTING"
    /\ emitted # <<>>
    /\ cycleData = <<>>
    /\ onCycleCallback
    /\ landmarks # <<>>
    /\ KneeSeen(landmarks)

\* C36: reset() unregisters the listener: after it nothing is delivered, not
\* even for an accepted cycle with angle sets buffered, until onCycle is
\* called again; the listener changes by reset() and onCycle() only; and the
\* two detector calls of beginDetecting, reset() and then onCycle(), leave a
\* listener registered whatever the detector held.
C36_ResetUnregistersListener ==
    [][ /\ lastOp' = "reset" => (~onCycleCallback' /\ emitted' = emitted)
        /\ lastOp' = "onCycle" => (onCycleCallback' /\ emitted' = emitted)
        /\ onCycleCallback' # onCycleCallback => lastOp' \in { "reset", "onCycle" }
        /\ (~onCycleCallback /\ lastOp' = "addSample") => emitted' = emitted
        /\ (onCycleCallback /\ AcceptedNow /\ currentCycleAngles # <<>>) => EmittedNow
        /\ ~reset(Det).onCycleCallback
        /\ onCycle(reset(Det)).onCycleCallback ]_vars

\* the app: a listener is registered whenever a frame is processed
C36_AppListenerAlwaysSet == onCycleCallback

\* after a reset that took the listener away a cycle has just been accepted
\* with angle sets buffered, and nothing was delivered: the last summary
\* delivered dates from before the reset
C36_Witness ==
    /\ lastOp = "addSample"
    /\ epoch = 1
    /\ ~onCycleCallback
    /\ anglesOn
    /\ cycleCount >= 1
    /\ lastCycleTime = Last(peaks)
    /\ Last(peaks) = samples[Len(samples) - lookback].t
    /\ SnapshotsFed > lookback
    /\ currentCycleAngles = <<>>
    /\ emitted # <<>>
    /\ Last(emitted).epoch = 0
====
